---- MODULE Spec2Model ----
(***************************************************************************)
(* A model of the DQS (Digitization Quality Score) calculator of           *)
(* src/src/validators/dqs_calculator.py.                                   *)
(*                                                                         *)
(* Scores are Python floats; they are modelled as exact rationals <<n, d>> *)
(* in lowest terms with d > 0.  Strings are sequences of one-character     *)
(* strings, so that strip(), upper(), lower(), float() and the edit        *)
(* distance are computed character by character.  A cell of a DataFrame is *)
(* a record [k, b, n, s]: its Python type k and its payload.               *)
(***************************************************************************)
EXTENDS Integers, Sequences, FiniteSets, TLC

VARIABLES
    HAS_LEVENSHTEIN,  \* module global set by the import at dqs_calculator.py:8-12
    call,             \* the last call made: its name and arguments
    result,           \* what that call returned
    filtered_gt,      \* the local filtered_gt of calculate_overall_dqs at its return
    matched_row,      \* calculate_table_dqs: per truth row, the predicted row it used
    tables_after,     \* the tables passed to a scoring call, as they are at its return
    table_scores,     \* calculate_overall_dqs, table by table: the local table_scores
    section_scores,   \* calculate_overall_dqs, table by table: the local section_scores
    remaining_pages,  \* extract_all_data_batched: the local remaining_pages
    batched_result,   \* extract_all_data_batched: the local result
    oracle_calls,     \* the calls made to extract_all_data / _extract_assets_only so far
    processed_docs,   \* NACCExtractionPipeline.processed_docs
    failed_docs,      \* NACCExtractionPipeline.failed_docs
    all_results,      \* NACCExtractionPipeline.all_results
    next_asset_id,    \* NACCExtractionPipeline.next_asset_id
    doc_queue,        \* process_batch: the rows of doc_info still to be visited
    invocations       \* how many times process_document has been entered

scoringVars == <<tables_after, table_scores, section_scores>>
extractorVars == <<remaining_pages, batched_result, oracle_calls>>
pipelineVars ==
    <<processed_docs, failed_docs, all_results, next_asset_id, doc_queue, invocations>>

vars == <<HAS_LEVENSHTEIN, call, result, filtered_gt, matched_row,
          scoringVars, extractorVars, pipelineVars>>

----------------------------------------------------------------------------
(* Exact rational arithmetic for Python's float scores.                    *)

RECURSIVE Gcd(_, _)
Gcd(a, b) == IF b = 0 THEN a ELSE Gcd(b, a % b)

IAbs(i) == IF i < 0 THEN -i ELSE i

Rat(n, d) ==
    LET g == Gcd(IAbs(n), IAbs(d))
        s == IF d < 0 THEN -1 ELSE 1
    IN  <<(s * n) \div g, (s * d) \div g>>

R0 == <<0, 1>>
R1 == <<1, 1>>
RHalf == <<1, 2>>

RAdd(x, y) == Rat(x[1] * y[2] + y[1] * x[2], x[2] * y[2])
RSub(x, y) == Rat(x[1] * y[2] - y[1] * x[2], x[2] * y[2])
RMul(x, y) == Rat(x[1] * y[1], x[2] * y[2])
RDiv(x, y) == Rat(x[1] * y[2], x[2] * y[1])
RAbs(x) == <<IAbs(x[1]), x[2]>>
RLe(x, y) == x[1] * y[2] <= y[1] * x[2]
RLt(x, y) == x[1] * y[2] < y[1] * x[2]
RMax(x, y) == IF RLt(x, y) THEN y ELSE x

RECURSIVE RSum(_)
RSum(xs) == IF xs = <<>> THEN R0 ELSE RAdd(xs[1], RSum(Tail(xs)))

\* np.mean of a non-empty list of floats
NpMean(xs) == RDiv(RSum(xs), <<Len(xs), 1>>)

----------------------------------------------------------------------------
(* Characters and strings.                                                 *)

Lowers == <<"a","b","c","d","e","f","g","h","i","j","k","l","m",
            "n","o","p","q","r","s","t","u","v","w","x","y","z">>
Uppers == <<"A","B","C","D","E","F","G","H","I","J","K","L","M",
            "N","O","P","Q","R","S","T","U","V","W","X","Y","Z">>
Digits == <<"0","1","2","3","4","5","6","7","8","9">>

IndexIn(seq, c) == CHOOSE i \in 1..Len(seq) : seq[i] = c
Occurs(seq, c) == \E i \in 1..Len(seq) : seq[i] = c

CharUpper(c) == IF Occurs(Lowers, c) THEN Uppers[IndexIn(Lowers, c)] ELSE c
CharLower(c) == IF Occurs(Uppers, c) THEN Lowers[IndexIn(Uppers, c)] ELSE c
IsSpace(c) == c \in {" ", "\t", "\n"}
IsDigit(c) == Occurs(Digits, c)
DigitVal(c) == IndexIn(Digits, c) - 1

\* str.upper(), str.lower()
StrUpper(s) == [i \in 1..Len(s) |-> CharUpper(s[i])]
StrLower(s) == [i \in 1..Len(s) |-> CharLower(s[i])]

\* str.strip(): drop the leading and the trailing whitespace
RECURSIVE LStrip(_)
LStrip(s) == IF s # <<>> /\ IsSpace(s[1]) THEN LStrip(Tail(s)) ELSE s
RECURSIVE RStrip(_)
RStrip(s) ==
    IF s # <<>> /\ IsSpace(s[Len(s)]) THEN RStrip(SubSeq(s, 1, Len(s) - 1)) ELSE s
Strip(s) == RStrip(LStrip(s))

NONE == <<"N","O","N","E">>

\* str(int) for a non-negative and for a negative int
RECURSIVE NatToStr(_)
NatToStr(n) ==
    IF n < 10 THEN <<Digits[n + 1]>>
    ELSE NatToStr(n \div 10) \o <<Digits[(n % 10) + 1]>>
IntToStr(i) == IF i < 0 THEN <<"-">> \o NatToStr(-i) ELSE NatToStr(i)

\* repr of a finite float whose fraction is a multiple of 1/10 (5.0, 2.5, -0.5)
FloatToStr(q) ==
    LET a == IAbs(q[1])
        tenths == (a * 10) \div q[2]
    IN  (IF q[1] < 0 THEN <<"-">> ELSE <<>>)
        \o NatToStr(tenths \div 10) \o <<".">> \o <<Digits[(tenths % 10) + 1]>>

----------------------------------------------------------------------------
(* Cell values.  None and float NaN are the two nulls of pandas.           *)

Val(k, b, n, s) == [k |-> k, b |-> b, n |-> n, s |-> s]
VNone == Val("none", FALSE, R0, <<>>)
VNaN == Val("nan", FALSE, R0, <<>>)
VBool(b) == Val("bool", b, R0, <<>>)
VInt(i) == Val("int", FALSE, <<i, 1>>, <<>>)
VFloat(n, d) == Val("float", FALSE, Rat(n, d), <<>>)
VInf == Val("inf", FALSE, R0, <<>>)
VStr(s) == Val("str", FALSE, R0, s)

\* pd.isna(x) on a scalar
IsNa(v) == v.k \in {"none", "nan"}

\* str(x)
PyStr(v) ==
    CASE v.k = "str" -> v.s
      [] v.k = "int" -> IntToStr(v.n[1])
      [] v.k = "float" -> FloatToStr(v.n)
      [] v.k = "inf" -> <<"i","n","f">>
      [] v.k = "bool" -> IF v.b THEN <<"T","r","u","e">> ELSE <<"F","a","l","s","e">>
      [] v.k = "none" -> <<"N","o","n","e">>
      [] v.k = "nan" -> <<"n","a","n">>

----------------------------------------------------------------------------
(* float(x) and int(x).  A conversion yields [ok, fin, q]: whether it      *)
(* returned, whether the float is finite, and its value.                   *)

Conv(ok, fin, q) == [ok |-> ok, fin |-> fin, q |-> q]
ConvFail == Conv(FALSE, FALSE, R0)

IPow10(k) == IF k = 0 THEN 1 ELSE IF k = 1 THEN 10 ELSE IF k = 2 THEN 100 ELSE 1000

AllDigits(s) == \A i \in 1..Len(s) : IsDigit(s[i])

RECURSIVE DigitsToNat(_)
DigitsToNat(s) ==
    IF s = <<>> THEN 0 ELSE DigitsToNat(SubSeq(s, 1, Len(s) - 1)) * 10 + DigitVal(s[Len(s)])

HasSign(s) == s # <<>> /\ s[1] \in {"+", "-"}
Unsigned(s) == IF HasSign(s) THEN Tail(s) ELSE s
SignOf(s) == IF s # <<>> /\ s[1] = "-" THEN -1 ELSE 1

\* float(str): surrounding whitespace, a sign, then inf, nan or a decimal
\* literal with at most three fraction digits (no exponent form occurs in the
\* inputs drawn here)
ParseFloat(s) ==
    LET t == Strip(s)
        u == Unsigned(t)
        l == StrLower(u)
        dots == {i \in 1..Len(u) : u[i] = "."}
    IN  IF l \in {<<"i","n","f">>, <<"i","n","f","i","n","i","t","y">>, <<"n","a","n">>}
            THEN Conv(TRUE, FALSE, R0)
        ELSE IF dots = {}
            THEN IF u # <<>> /\ AllDigits(u)
                     THEN Conv(TRUE, TRUE, <<SignOf(t) * DigitsToNat(u), 1>>)
                     ELSE ConvFail
        ELSE IF Cardinality(dots) = 1
            THEN LET d == CHOOSE i \in dots : TRUE
                     ip == SubSeq(u, 1, d - 1)
                     fp == SubSeq(u, d + 1, Len(u))
                 IN  IF AllDigits(ip) /\ AllDigits(fp) /\ Len(ip) + Len(fp) > 0 /\ Len(fp) <= 3
                         THEN Conv(TRUE, TRUE,
                                   Rat(SignOf(t) * (DigitsToNat(ip) * IPow10(Len(fp)) + DigitsToNat(fp)),
                                       IPow10(Len(fp))))
                         ELSE ConvFail
        ELSE ConvFail

\* float(x): ValueError on a malformed string, TypeError on None
PyFloat(v) ==
    CASE v.k = "str" -> ParseFloat(v.s)
      [] v.k \in {"int", "float"} -> Conv(TRUE, TRUE, v.n)
      [] v.k = "bool" -> Conv(TRUE, TRUE, IF v.b THEN R1 ELSE R0)
      [] v.k \in {"inf", "nan"} -> Conv(TRUE, FALSE, R0)
      [] v.k = "none" -> ConvFail

----------------------------------------------------------------------------
(* The field scorers.                                                      *)

\* Levenshtein.distance(a, b) of the python-Levenshtein package: the least
\* number of single-character insertions, deletions and substitutions
RECURSIVE LevenshteinDistance(_, _)
LevenshteinDistance(a, b) ==
    IF a = <<>> THEN Len(b)
    ELSE IF b = <<>> THEN Len(a)
    ELSE IF a[1] = b[1] THEN LevenshteinDistance(Tail(a), Tail(b))
    ELSE 1 + LET x == LevenshteinDistance(Tail(a), b)
                 y == LevenshteinDistance(a, Tail(b))
                 z == LevenshteinDistance(Tail(a), Tail(b))
             IN  IF x <= y /\ x <= z THEN x ELSE IF y <= z THEN y ELSE z

\* "NONE" is replaced by the empty string (lines 60-64)
NoneToEmpty(s) == IF StrUpper(s) = NONE THEN <<>> ELSE s

text_distance(pred_str, truth_str) ==
    IF HAS_LEVENSHTEIN
        THEN LevenshteinDistance(pred_str, truth_str)
        ELSE IF pred_str = truth_str THEN 0 ELSE Len(truth_str)

IMax(a, b) == IF a >= b THEN a ELSE b

\* a variant of calculate_text_score that does not strip the two strings
calculate_text_score_unstripped(predicted, ground_truth) ==
    IF IsNa(predicted) /\ IsNa(ground_truth) THEN R1
    ELSE IF IsNa(predicted) \/ IsNa(ground_truth) THEN R0
    ELSE LET pred_str == NoneToEmpty(PyStr(predicted))
             truth_str == NoneToEmpty(PyStr(ground_truth))
         IN  IF truth_str = <<>> /\ pred_str = <<>> THEN R1
             ELSE IF truth_str = <<>> THEN (IF pred_str # <<>> THEN R0 ELSE R1)
             ELSE LET distance == text_distance(pred_str, truth_str)
                      cer == Rat(distance, IMax(Len(truth_str), 1))
                  IN  RMax(R0, RSub(R1, cer))

calculate_text_score(predicted, ground_truth) ==
    IF IsNa(predicted) /\ IsNa(ground_truth) THEN R1
    ELSE IF IsNa(predicted) \/ IsNa(ground_truth) THEN R0
    ELSE LET pred_str == NoneToEmpty(Strip(PyStr(predicted)))
             truth_str == NoneToEmpty(Strip(PyStr(ground_truth)))
         IN  IF truth_str = <<>> /\ pred_str = <<>> THEN R1
             ELSE IF truth_str = <<>> THEN (IF pred_str # <<>> THEN R0 ELSE R1)
             ELSE LET distance == text_distance(pred_str, truth_str)
                      cer == Rat(distance, IMax(Len(truth_str), 1))
                  IN  RMax(R0, RSub(R1, cer))

\* a variant of calculate_numeric_score that returns 1 - relative_error
\* without clamping it at 0
calculate_numeric_score_unclamped(predicted, ground_truth) ==
    IF IsNa(predicted) /\ IsNa(ground_truth) THEN R1
    ELSE IF IsNa(predicted) \/ IsNa(ground_truth) THEN R0
    ELSE LET pred_val == PyFloat(predicted)
             truth_val == PyFloat(ground_truth)
         IN  IF ~pred_val.ok \/ ~truth_val.ok THEN R0
             ELSE IF truth_val.fin /\ truth_val.q = R0
                 THEN (IF pred_val.fin /\ pred_val.q = R0 THEN R1 ELSE R0)
             ELSE IF ~pred_val.fin \/ ~truth_val.fin THEN R0
             ELSE RSub(R1, RDiv(RAbs(RSub(pred_val.q, truth_val.q)), RAbs(truth_val.q)))

\* a variant of calculate_numeric_score that divides the error by truth_val
\* instead of abs(truth_val)
calculate_numeric_score_signed(predicted, ground_truth) ==
    IF IsNa(predicted) /\ IsNa(ground_truth) THEN R1
    ELSE IF IsNa(predicted) \/ IsNa(ground_truth) THEN R0
    ELSE LET pred_val == PyFloat(predicted)
             truth_val == PyFloat(ground_truth)
         IN  IF ~pred_val.ok \/ ~truth_val.ok THEN R0
             ELSE IF truth_val.fin /\ truth_val.q = R0
                 THEN (IF pred_val.fin /\ pred_val.q = R0 THEN R1 ELSE R0)
             ELSE IF ~pred_val.fin \/ ~truth_val.fin THEN R0
             ELSE RMax(R0, RSub(R1, RDiv(RAbs(RSub(pred_val.q, truth_val.q)), truth_val.q)))

\* a variant of calculate_numeric_score that forgives a relative error of up
\* to a quarter
calculate_numeric_score_tolerant(predicted, ground_truth) ==
    IF IsNa(predicted) /\ IsNa(ground_truth) THEN R1
    ELSE IF IsNa(predicted) \/ IsNa(ground_truth) THEN R0
    ELSE LET pred_val == PyFloat(predicted)
             truth_val == PyFloat(ground_truth)
         IN  IF ~pred_val.ok \/ ~truth_val.ok THEN R0
             ELSE IF truth_val.fin /\ truth_val.q = R0
                 THEN (IF pred_val.fin /\ pred_val.q = R0 THEN R1 ELSE R0)
             ELSE IF ~pred_val.fin \/ ~truth_val.fin THEN R0
             ELSE LET relative_error ==
                          RDiv(RAbs(RSub(pred_val.q, truth_val.q)), RAbs(truth_val.q))
                  IN  IF RLe(relative_error, <<1, 4>>) THEN R1
                      ELSE RMax(R0, RSub(R1, relative_error))

\* With a non-finite operand relative_error is inf or nan, and Python's
\* max(0, 1 - relative_error) is then 0: -inf is below 0, and nan > 0 is false.
calculate_numeric_score(predicted, ground_truth) ==
    IF IsNa(predicted) /\ IsNa(ground_truth) THEN R1
    ELSE IF IsNa(predicted) \/ IsNa(ground_truth) THEN R0
    ELSE LET pred_val == PyFloat(predicted)
             truth_val == PyFloat(ground_truth)
         IN  IF ~pred_val.ok \/ ~truth_val.ok THEN R0
             ELSE IF truth_val.fin /\ truth_val.q = R0
                 THEN (IF pred_val.fin /\ pred_val.q = R0 THEN R1 ELSE R0)
             ELSE IF ~pred_val.fin \/ ~truth_val.fin THEN R0
             ELSE LET relative_error ==
                          RDiv(RAbs(RSub(pred_val.q, truth_val.q)), RAbs(truth_val.q))
                  IN  RMax(R0, RSub(R1, relative_error))

\* a variant of calculate_enum_score that compares the letters as written
calculate_enum_score_cased(predicted, ground_truth) ==
    IF IsNa(predicted) /\ IsNa(ground_truth) THEN R1
    ELSE IF IsNa(predicted) \/ IsNa(ground_truth) THEN R0
    ELSE LET pred_str == Strip(PyStr(predicted))
             truth_str == Strip(PyStr(ground_truth))
         IN  IF pred_str = truth_str THEN R1 ELSE R0

calculate_enum_score(predicted, ground_truth) ==
    IF IsNa(predicted) /\ IsNa(ground_truth) THEN R1
    ELSE IF IsNa(predicted) \/ IsNa(ground_truth) THEN R0
    ELSE LET pred_str == StrLower(Strip(PyStr(predicted)))
             truth_str == StrLower(Strip(PyStr(ground_truth)))
         IN  IF pred_str = <<"n","o","n","e">> /\ truth_str = <<"n","o","n","e">> THEN R1
             ELSE IF pred_str = truth_str THEN R1 ELSE R0

\* a variant of to_bool that reads every value outside the vocabulary as
\* False
to_bool_default_false(val) ==
    IF IsNa(val) THEN "N"
    ELSE IF val.k = "bool" THEN (IF val.b THEN "T" ELSE "F")
    ELSE LET val_str == StrLower(Strip(PyStr(val)))
         IN  IF val_str \in {<<"t","r","u","e">>, <<"1">>, <<"y","e","s">>} THEN "T"
             ELSE "F"

\* to_bool: "T", "F" or "N" (None)
to_bool(val) ==
    IF IsNa(val) THEN "N"
    ELSE IF val.k = "bool" THEN (IF val.b THEN "T" ELSE "F")
    ELSE LET val_str == StrLower(Strip(PyStr(val)))
         IN  IF val_str \in {<<"t","r","u","e">>, <<"1">>, <<"y","e","s">>} THEN "T"
             ELSE IF val_str \in {<<"f","a","l","s","e">>, <<"0">>, <<"n","o">>} THEN "F"
             ELSE "N"

\* a variant of calculate_boolean_score that gives no partial credit when
\* one side alone is None
calculate_boolean_score_strict(predicted, ground_truth) ==
    LET p == to_bool(predicted)
        t == to_bool(ground_truth)
    IN  IF p = "N" /\ t = "N" THEN R1
        ELSE IF p = "N" \/ t = "N" THEN R0
        ELSE IF p = t THEN R1 ELSE R0

calculate_boolean_score(predicted, ground_truth) ==
    LET p == to_bool(predicted)
        t == to_bool(ground_truth)
    IN  IF p = "N" /\ t = "N" THEN R1
        ELSE IF p = "N" \/ t = "N" THEN RHalf
        ELSE IF p = t THEN R1 ELSE R0

\* the dispatch on the declared field type (lines 291-300): any other type
\* is scored as text
field_score(field_type, pred_val, truth_val) ==
    CASE field_type = "text" -> calculate_text_score(pred_val, truth_val)
      [] field_type = "numeric" -> calculate_numeric_score(pred_val, truth_val)
      [] field_type = "enum" -> calculate_enum_score(pred_val, truth_val)
      [] field_type = "boolean" -> calculate_boolean_score(pred_val, truth_val)
      [] OTHER -> calculate_text_score(pred_val, truth_val)

----------------------------------------------------------------------------
(* calculate_date_score.  int(x) yields [exc, i]: the exception it raised  *)
(* ("" when it returned) and its value.                                    *)

IntConv(exc, i) == [exc |-> exc, i |-> i]

ParseInt(s) ==
    LET t == Strip(s)
        u == Unsigned(t)
    IN  IF u # <<>> /\ AllDigits(u) THEN IntConv("", SignOf(t) * DigitsToNat(u))
        ELSE IntConv("ValueError", 0)

\* int(x): truncation of a float, ValueError on a malformed string or nan,
\* OverflowError on inf, TypeError on None
PyInt(v) ==
    CASE v.k = "str" -> ParseInt(v.s)
      [] v.k = "int" -> IntConv("", v.n[1])
      [] v.k = "float" -> IntConv("", (IF v.n[1] < 0 THEN -1 ELSE 1) * (IAbs(v.n[1]) \div v.n[2]))
      [] v.k = "bool" -> IntConv("", IF v.b THEN 1 ELSE 0)
      [] v.k = "inf" -> IntConv("OverflowError", 0)
      [] v.k = "nan" -> IntConv("ValueError", 0)
      [] v.k = "none" -> IntConv("TypeError", 0)

\* bool(x)
Truthy(v) ==
    CASE v.k = "str" -> v.s # <<>>
      [] v.k \in {"int", "float"} -> v.n # R0
      [] v.k = "bool" -> v.b
      [] v.k \in {"inf", "nan"} -> TRUE
      [] v.k = "none" -> FALSE

IsNoneWord(v) == StrUpper(PyStr(v)) = NONE

\* int(x) if x and str(x).upper() != "NONE" else None; the component is
\* [exc, none, i]
Comp(exc, none, i) == [exc |-> exc, none |-> none, i |-> i]
CompNone == Comp("", TRUE, 0)
date_component(x) ==
    IF Truthy(x) /\ ~IsNoneWord(x)
        THEN LET c == PyInt(x) IN Comp(c.exc, FALSE, c.i)
        ELSE CompNone

\* One try block (lines 128-132, 138-142, 148-152): the pair of components,
\* both None after a ValueError or TypeError; any other exception escapes,
\* and the truth side is not evaluated once the predicted side has raised.
Caught == {"ValueError", "TypeError"}
date_pair(pred_x, truth_x) ==
    LET p == date_component(pred_x)
        t == date_component(truth_x)
    IN  IF p.exc \in Caught THEN [exc |-> "", p |-> CompNone, t |-> CompNone]
        ELSE IF p.exc # "" THEN [exc |-> p.exc, p |-> CompNone, t |-> CompNone]
        ELSE IF t.exc \in Caught THEN [exc |-> "", p |-> CompNone, t |-> CompNone]
        ELSE IF t.exc # "" THEN [exc |-> t.exc, p |-> CompNone, t |-> CompNone]
        ELSE [exc |-> "", p |-> p, t |-> t]

Returns(v) == [raises |-> "", value |-> v]
Raises(e) == [raises |-> e, value |-> R0]

all_null(d, m, y) == \A x \in {d, m, y} : IsNa(x) \/ IsNoneWord(x)

calculate_date_score(pred_date, pred_month, pred_year, truth_date, truth_month, truth_year) ==
    LET all_pred_null == all_null(pred_date, pred_month, pred_year)
        all_truth_null == all_null(truth_date, truth_month, truth_year)
        year == date_pair(pred_year, truth_year)
        month == date_pair(pred_month, truth_month)
        day == date_pair(pred_date, truth_date)
    IN  IF all_pred_null /\ all_truth_null THEN Returns(R1)
        ELSE IF all_pred_null \/ all_truth_null THEN Returns(R0)
        ELSE IF year.exc # "" THEN Raises(year.exc)
        ELSE IF year.p # year.t THEN Returns(R0)
        ELSE IF month.exc # "" THEN Raises(month.exc)
        ELSE IF month.p # month.t THEN Returns(<<3, 10>>)
        ELSE IF day.exc # "" THEN Raises(day.exc)
        ELSE IF day.p = day.t THEN Returns(R1)
        ELSE IF day.p.none \/ day.t.none THEN Returns(RHalf)
        ELSE IF IAbs(day.p.i - day.t.i) <= 3 THEN Returns(<<4, 5>>)
        ELSE Returns(RHalf)

----------------------------------------------------------------------------
(* DataFrames.  A table is [cols, rows]: its column names and its rows in  *)
(* order, each row a function from cols to the cell that row[col] yields.  *)
(* The predicted tables carry pandas' default index 0..n-1 (they are built *)
(* by pd.DataFrame(rows) and pd.concat(..., ignore_index=True)).           *)

DataFrame(cols, rows) == [cols |-> cols, rows |-> rows]
EmptyFrame == DataFrame({}, <<>>)

\* DataFrame.empty: no rows or no columns
IsEmpty(df) == df.rows = <<>> \/ df.cols = {}

IsNumber(v) == v.k \in {"int", "float", "bool"}
NumberOf(v) == IF v.k = "bool" THEN (IF v.b THEN R1 ELSE R0) ELSE v.n

\* One cell of predicted_df[key] == truth_row[key]: a null equals nothing,
\* numbers compare by value whatever their type, strings by their text
CellEq(a, b) ==
    IF IsNa(a) \/ IsNa(b) THEN FALSE
    ELSE IF IsNumber(a) /\ IsNumber(b) THEN NumberOf(a) = NumberOf(b)
    ELSE IF a.k = "inf" /\ b.k = "inf" THEN TRUE
    ELSE IF a.k = "str" /\ b.k = "str" THEN a.s = b.s
    ELSE FALSE

EmptyDict == [f \in {} |-> R0]

\* a variant of row_mask in which a key column that a side lacks matches no
\* row
RECURSIVE row_mask_strict(_, _, _, _)
row_mask_strict(predicted_df, truth_df, truth_row, key_columns) ==
    IF key_columns = <<>> THEN 1..Len(predicted_df.rows)
    ELSE LET key == key_columns[1]
             mask == row_mask_strict(predicted_df, truth_df, truth_row, Tail(key_columns))
         IN  IF key \in predicted_df.cols /\ key \in truth_df.cols
                 THEN {i \in mask : CellEq(predicted_df.rows[i][key], truth_row[key])}
                 ELSE {}

\* The mask of lines 278-281 for one truth row, as the set of the positions
\* of predicted_df it keeps
RECURSIVE row_mask(_, _, _, _)
row_mask(predicted_df, truth_df, truth_row, key_columns) ==
    IF key_columns = <<>> THEN 1..Len(predicted_df.rows)
    ELSE LET key == key_columns[1]
             mask == row_mask(predicted_df, truth_df, truth_row, Tail(key_columns))
         IN  IF key \in predicted_df.cols /\ key \in truth_df.cols
                 THEN {i \in mask : CellEq(predicted_df.rows[i][key], truth_row[key])}
                 ELSE mask

SetMin(S) == CHOOSE x \in S : \A y \in S : x <= y

\* For each truth row in order, the position in predicted_df of pred_row
\* (matched_rows.iloc[0], lines 283-286), 0 when matched_rows is empty; no
\* row is looked up after an early return
matched_positions(predicted_df, truth_df, key_columns) ==
    IF IsEmpty(predicted_df) \/ IsEmpty(truth_df) THEN <<>>
    ELSE [i \in 1..Len(truth_df.rows) |->
             LET mask == row_mask(predicted_df, truth_df, truth_df.rows[i], key_columns)
             IN  IF mask = {} THEN 0 ELSE SetMin(mask)]

\* a variant of score_truth_row that scores every field of the map the truth
\* row has, reading a field the predicted row lacks as None
score_truth_row_unguarded(acc, predicted_df, truth_df, truth_row, key_columns, field_types) ==
    LET mask == row_mask(predicted_df, truth_df, truth_row, key_columns)
    IN  IF mask = {} THEN acc
        ELSE LET pred_row == predicted_df.rows[SetMin(mask)]
             IN  [scores |->
                      [field \in DOMAIN field_types |->
                          IF field \in truth_df.cols
                              THEN Append(acc.scores[field],
                                          field_score(field_types[field],
                                                      IF field \in predicted_df.cols
                                                          THEN pred_row[field] ELSE VNone,
                                                      truth_row[field]))
                              ELSE acc.scores[field]],
                  matched |-> acc.matched + 1]

\* The body of the loop over the truth rows (lines 276-302): acc is
\* [scores, matched], the lists all_field_scores and matched_count
score_truth_row(acc, predicted_df, truth_df, truth_row, key_columns, field_types) ==
    LET mask == row_mask(predicted_df, truth_df, truth_row, key_columns)
    IN  IF mask = {} THEN acc
        ELSE LET pred_row == predicted_df.rows[SetMin(mask)]
             IN  [scores |->
                      [field \in DOMAIN field_types |->
                          IF field \in predicted_df.cols /\ field \in truth_df.cols
                              THEN Append(acc.scores[field],
                                          field_score(field_types[field],
                                                      pred_row[field], truth_row[field]))
                              ELSE acc.scores[field]],
                  matched |-> acc.matched + 1]

RECURSIVE truth_loop(_, _, _, _, _, _)
truth_loop(acc, i, predicted_df, truth_df, key_columns, field_types) ==
    IF i > Len(truth_df.rows) THEN acc
    ELSE truth_loop(score_truth_row(acc, predicted_df, truth_df, truth_df.rows[i],
                                    key_columns, field_types),
                    i + 1, predicted_df, truth_df, key_columns, field_types)

RECURSIVE DictSum(_, _)
DictSum(d, keys) ==
    IF keys = {} THEN R0
    ELSE LET k == CHOOSE x \in keys : TRUE
         IN  RAdd(d[k], DictSum(d, keys \ {k}))

\* np.mean(list(d.values())) of a non-empty dict
DictMean(d) == RDiv(DictSum(d, DOMAIN d), <<Cardinality(DOMAIN d), 1>>)

\* lines 304-308
final_scores(all_field_scores) ==
    [field \in {f \in DOMAIN all_field_scores : all_field_scores[f] # <<>>} |->
        NpMean(all_field_scores[field])]

\* lines 310-311
table_coverage(matched_count, truth_df) ==
    IF Len(truth_df.rows) > 0 THEN Rat(matched_count, Len(truth_df.rows)) ELSE R0

\* a variant of table_overall that forgets the coverage penalty
table_overall_no_coverage(final_field_scores, coverage) ==
    IF DOMAIN final_field_scores # {} THEN DictMean(final_field_scores) ELSE R0

\* a variant of table_overall that gives a table without any scored field
\* full marks
table_overall_default_one(final_field_scores, coverage) ==
    IF DOMAIN final_field_scores # {}
        THEN RMul(DictMean(final_field_scores), coverage)
        ELSE R1

\* line 312
table_overall(final_field_scores, coverage) ==
    IF DOMAIN final_field_scores # {}
        THEN RMul(DictMean(final_field_scores), coverage)
        ELSE R0

TableResult(overall, per_field) == [overall |-> overall, per_field |-> per_field]

\* a variant of calculate_table_dqs that scores predicted rows without any
\* ground truth as a miss
calculate_table_dqs_strict(predicted_df, ground_truth_df, key_columns, field_types) ==
    IF IsEmpty(predicted_df) /\ IsEmpty(ground_truth_df) THEN TableResult(R1, EmptyDict)
    ELSE IF IsEmpty(predicted_df) \/ IsEmpty(ground_truth_df) THEN TableResult(R0, EmptyDict)
    ELSE LET acc == truth_loop([scores |-> [f \in DOMAIN field_types |-> <<>>], matched |-> 0],
                               1, predicted_df, ground_truth_df, key_columns, field_types)
             final_field_scores == final_scores(acc.scores)
             coverage == table_coverage(acc.matched, ground_truth_df)
         IN  TableResult(table_overall(final_field_scores, coverage), final_field_scores)

\* a variant of calculate_table_dqs whose coverage also counts the predicted
\* rows in excess of the truth rows
calculate_table_dqs_penalizing_extra(predicted_df, ground_truth_df, key_columns, field_types) ==
    IF IsEmpty(predicted_df) /\ IsEmpty(ground_truth_df) THEN TableResult(R1, EmptyDict)
    ELSE IF IsEmpty(predicted_df) THEN TableResult(R0, EmptyDict)
    ELSE IF IsEmpty(ground_truth_df) THEN TableResult(R1, EmptyDict)
    ELSE LET acc == truth_loop([scores |-> [f \in DOMAIN field_types |-> <<>>], matched |-> 0],
                               1, predicted_df, ground_truth_df, key_columns, field_types)
             final_field_scores == final_scores(acc.scores)
             coverage == Rat(acc.matched,
                             IMax(Len(ground_truth_df.rows), Len(predicted_df.rows)))
         IN  TableResult(table_overall(final_field_scores, coverage), final_field_scores)

calculate_table_dqs(predicted_df, ground_truth_df, key_columns, field_types) ==
    IF IsEmpty(predicted_df) /\ IsEmpty(ground_truth_df) THEN TableResult(R1, EmptyDict)
    ELSE IF IsEmpty(predicted_df) THEN TableResult(R0, EmptyDict)
    ELSE IF IsEmpty(ground_truth_df) THEN TableResult(R1, EmptyDict)
    ELSE LET acc == truth_loop([scores |-> [f \in DOMAIN field_types |-> <<>>], matched |-> 0],
                               1, predicted_df, ground_truth_df, key_columns, field_types)
             final_field_scores == final_scores(acc.scores)
             coverage == table_coverage(acc.matched, ground_truth_df)
         IN  TableResult(table_overall(final_field_scores, coverage), final_field_scores)

----------------------------------------------------------------------------
(* calculate_overall_dqs.  A dict of tables is a function from the table   *)
(* names it holds to DataFrames.                                           *)

Sections == <<"submitter_spouse", "statement_details", "assets", "relatives">>

SECTION_WEIGHTS ==
    [section \in {Sections[i] : i \in 1..Len(Sections)} |->
        CASE section = "submitter_spouse" -> <<1, 4>>
          [] section = "statement_details" -> <<3, 10>>
          [] section = "assets" -> <<3, 10>>
          [] section = "relatives" -> <<3, 20>>]

\* the keys of TABLE_TO_SECTION in their order
Tables == <<"submitter_info", "submitter_old_name", "submitter_position",
            "spouse_info", "spouse_old_name", "spouse_position",
            "statement", "statement_detail",
            "asset", "asset_land_info", "asset_building_info",
            "asset_vehicle_info", "asset_other_asset_info", "relative_info">>
TableNames == {Tables[i] : i \in 1..Len(Tables)}

TABLE_TO_SECTION ==
    [t \in TableNames |->
        IF t \in {"submitter_info", "submitter_old_name", "submitter_position",
                  "spouse_info", "spouse_old_name", "spouse_position"}
            THEN "submitter_spouse"
        ELSE IF t \in {"statement", "statement_detail"} THEN "statement_details"
        ELSE IF t = "relative_info" THEN "relatives"
        ELSE "assets"]

Dict(keys, vals) == [i \in {keys[j] : j \in 1..Len(keys)} |->
                        vals[CHOOSE j \in 1..Len(keys) : keys[j] = i]]

\* field_type_definitions (lines 357-395); a table it does not name has {}
field_type_definitions(table_name) ==
    CASE table_name = "submitter_info" ->
            Dict(<<"title", "first_name", "last_name", "age", "status",
                   "sub_district", "district", "province">>,
                 <<"text", "text", "text", "numeric", "text", "text", "text", "text">>)
      [] table_name = "spouse_info" ->
            Dict(<<"title", "first_name", "last_name", "age", "status">>,
                 <<"text", "text", "text", "numeric", "text">>)
      [] table_name = "asset" ->
            Dict(<<"asset_type_id", "asset_name", "valuation",
                   "owner_by_submitter", "owner_by_spouse", "owner_by_child">>,
                 <<"enum", "text", "numeric", "boolean", "boolean", "boolean">>)
      [] table_name = "relative_info" ->
            Dict(<<"relationship_id", "title", "first_name", "last_name">>,
                 <<"enum", "text", "text", "text">>)
      [] table_name = "statement" ->
            Dict(<<"statement_type_id", "valuation_submitter",
                   "valuation_spouse", "valuation_child">>,
                 <<"enum", "numeric", "numeric", "numeric">>)
      [] OTHER -> [f \in {} |-> "text"]

\* key_columns_map (lines 398-413)
key_columns_map(table_name) ==
    CASE table_name = "submitter_info" -> <<"submitter_id">>
      [] table_name \in {"submitter_old_name", "spouse_info", "spouse_old_name"} ->
            <<"submitter_id", "nacc_id">>
      [] table_name = "submitter_position" ->
            <<"submitter_id", "nacc_id", "index", "position_period_type_id">>
      [] table_name = "spouse_position" -> <<"submitter_id", "nacc_id", "position">>
      [] table_name = "asset" -> <<"submitter_id", "nacc_id", "index">>
      [] table_name \in {"asset_land_info", "asset_building_info",
                         "asset_vehicle_info", "asset_other_asset_info"} ->
            <<"submitter_id", "nacc_id", "asset_index">>
      [] table_name = "relative_info" ->
            <<"submitter_id", "nacc_id", "relationship_id", "first_name">>
      [] table_name = "statement" -> <<"submitter_id", "nacc_id", "statement_type_id">>
      [] table_name = "statement_detail" ->
            <<"submitter_id", "nacc_id", "statement_type_id", "statement_detail_type_id">>
      [] OTHER -> <<"submitter_id", "nacc_id">>

\* dict.get(table_name, pd.DataFrame())
DictGet(d, table_name) == IF table_name \in DOMAIN d THEN d[table_name] ELSE EmptyFrame

\* The non-null values of column col over all the predicted tables that have
\* it (lines 328-334)
processed_ids(predicted, col) ==
    {v \in UNION {{predicted[t].rows[i][col] : i \in 1..Len(predicted[t].rows)} :
                     t \in {x \in DOMAIN predicted : col \in predicted[x].cols}} :
        ~IsNa(v)}

\* df[df[col].isin(ids)]: the rows whose cell equals one of ids, in order
RECURSIVE SelectRows(_, _, _)
SelectRows(rows, col, ids) ==
    IF rows = <<>> THEN <<>>
    ELSE (IF \E v \in ids : CellEq(rows[1][col], v) THEN <<rows[1]>> ELSE <<>>)
         \o SelectRows(Tail(rows), col, ids)

\* lines 339-351 for one ground-truth table
filter_table(df, processed_submitter_ids, processed_nacc_ids) ==
    IF IsEmpty(df) THEN df
    ELSE IF "submitter_id" \in df.cols /\ processed_submitter_ids # {}
        THEN DataFrame(df.cols, SelectRows(df.rows, "submitter_id", processed_submitter_ids))
    ELSE IF "nacc_id" \in df.cols /\ processed_nacc_ids # {}
        THEN DataFrame(df.cols, SelectRows(df.rows, "nacc_id", processed_nacc_ids))
    ELSE df

\* lines 327-351
filter_ground_truth(predicted, ground_truth) ==
    [table_name \in DOMAIN ground_truth |->
        filter_table(ground_truth[table_name],
                     processed_ids(predicted, "submitter_id"),
                     processed_ids(predicted, "nacc_id"))]

\* a variant of ground_truth_after that filters the caller's tables in place
ground_truth_filtered_in_place(predicted, ground_truth) ==
    filter_ground_truth(predicted, ground_truth)

\* The caller's ground_truth once lines 337-351 have run: the loop assigns
\* only to the new dict filtered_gt, and df[df[col].isin(ids)] builds a new
\* frame, so the tables passed in keep their rows
ground_truth_after(predicted, ground_truth) == ground_truth

\* lines 432-439
table_field_types(table_name, truth_df) ==
    LET field_types == field_type_definitions(table_name)
    IN  IF DOMAIN field_types = {} /\ ~IsEmpty(truth_df)
            THEN [col \in truth_df.cols \ {"latest_submitted_date"} |-> "text"]
            ELSE field_types

\* What one pass of the loop over the tables (lines 416-447) does for
\* table_name: [score, adds], the entry it writes to table_scores and whether
\* it appends that score to the list of the table's section
Outcome(score, adds) == [score |-> score, adds |-> adds]

\* a variant of score_table that skips a table missing from the prediction
\* instead of adding 0.0 to its section
score_table_skip_missing(table_name, predicted, filtered) ==
    LET pred_df == DictGet(predicted, table_name)
        truth_df == DictGet(filtered, table_name)
    IN  IF IsEmpty(pred_df)
            THEN Outcome(IF IsEmpty(truth_df) THEN R1 ELSE R0, FALSE)
            ELSE Outcome(calculate_table_dqs(pred_df, truth_df, key_columns_map(table_name),
                                             table_field_types(table_name, truth_df)).overall,
                         TRUE)

\* a variant of score_table that counts a table missing from the ground
\* truth as a failure instead of reading it as an empty table
score_table_missing_truth_zero(table_name, predicted, filtered) ==
    LET pred_df == DictGet(predicted, table_name)
        truth_df == DictGet(filtered, table_name)
    IN  IF table_name \notin DOMAIN filtered THEN Outcome(R0, TRUE)
        ELSE IF IsEmpty(pred_df)
            THEN IF IsEmpty(truth_df) THEN Outcome(R1, FALSE) ELSE Outcome(R0, TRUE)
            ELSE Outcome(calculate_table_dqs(pred_df, truth_df, key_columns_map(table_name),
                                             table_field_types(table_name, truth_df)).overall,
                         TRUE)

score_table(table_name, predicted, filtered) ==
    LET pred_df == DictGet(predicted, table_name)
        truth_df == DictGet(filtered, table_name)
    IN  IF IsEmpty(pred_df)
            THEN IF IsEmpty(truth_df) THEN Outcome(R1, FALSE) ELSE Outcome(R0, TRUE)
            ELSE Outcome(calculate_table_dqs(pred_df, truth_df, key_columns_map(table_name),
                                             table_field_types(table_name, truth_df)).overall,
                         TRUE)

\* section_scores[section] after the loop: the scores appended for the
\* tables of the section, in the order of TABLE_TO_SECTION
RECURSIVE section_list(_, _, _)
section_list(outcomes, section, i) ==
    IF i > Len(Tables) THEN <<>>
    ELSE (IF TABLE_TO_SECTION[Tables[i]] = section /\ outcomes[Tables[i]].adds
              THEN <<outcomes[Tables[i]].score>> ELSE <<>>)
         \o section_list(outcomes, section, i + 1)

\* a variant of section_average that gives a section without scores 1.0
section_average_default_one(scores) == IF scores # <<>> THEN NpMean(scores) ELSE R1

\* lines 449-452
section_average(scores) == IF scores # <<>> THEN NpMean(scores) ELSE R0

\* a variant of weighted_sum that weighs the four sections equally
RECURSIVE weighted_sum_equal(_, _)
weighted_sum_equal(final_section_scores, i) ==
    IF i > Len(Sections) THEN R0
    ELSE RAdd(RMul(final_section_scores[Sections[i]], <<1, 4>>),
              weighted_sum_equal(final_section_scores, i + 1))

\* lines 454-458
RECURSIVE weighted_sum(_, _)
weighted_sum(final_section_scores, i) ==
    IF i > Len(Sections) THEN R0
    ELSE RAdd(RMul(final_section_scores[Sections[i]], SECTION_WEIGHTS[Sections[i]]),
              weighted_sum(final_section_scores, i + 1))

\* line 462: overall_dqs >= 0.70
passes(overall_dqs) == RLe(<<7, 10>>, overall_dqs)

\* lines 353-465: the report, from the predicted tables and filtered_gt
overall_report(predicted, filtered) ==
    LET outcomes == [t \in TableNames |-> score_table(t, predicted, filtered)]
        final_section_scores ==
            [s \in DOMAIN SECTION_WEIGHTS |-> section_average(section_list(outcomes, s, 1))]
        overall_dqs == weighted_sum(final_section_scores, 1)
    IN  [overall_dqs |-> overall_dqs,
         passes_threshold |-> passes(overall_dqs),
         section_scores |-> final_section_scores,
         table_scores |-> [t \in TableNames |-> outcomes[t].score]]

----------------------------------------------------------------------------
(* The inputs the calls are made on.                                       *)

S_ab == <<"a","b">>
S_ac == <<"a","c">>
S_xy == <<"x","y">>

\* scalar cells: both nulls, the sentinel in several spellings, blank and
\* padded text, text of several lengths, numbers as int, float and text,
\* non-finite floats, and the boolean vocabulary
FieldValues ==
    {VNone, VNaN,
     VStr(NONE), VStr(<<"n","o","n","e">>), VStr(<<" ","N","o","n","e"," ">>),
     VStr(<<>>), VStr(<<" ">>),
     VStr(<<"a">>), VStr(S_ab), VStr(S_ac), VStr(<<" ","a","b"," ">>), VStr(<<"A","B">>),
     VStr(<<"a","b","c","d","e">>),
     VInt(0), VInt(1), VInt(5), VInt(10), VInt(-5), VFloat(5, 1), VFloat(15, 2), VInf,
     VStr(<<"5">>), VStr(<<" ","5"," ">>), VStr(<<"5",".","0">>), VStr(<<"0">>), VStr(<<"-","5">>),
     VStr(<<"7",".","5">>), VStr(<<"i","n","f">>), VStr(<<"n","a","n">>),
     VBool(TRUE), VBool(FALSE),
     VStr(<<"t","r","u","e">>), VStr(<<"Y","e","s">>), VStr(<<"n","o">>), VStr(<<"1">>)}

DateDays == {VNone, VNaN, VInt(1), VInt(3), VInt(10), VStr(NONE)}
DateMonths == {VNone, VInt(1), VInt(2), VStr(<<"x">>)}
DateYears == {VNone, VNaN, VInt(2020), VInt(2021), VStr(<<"2","0","2","0">>), VStr(S_ab), VInf}

\* rows of a table with a key column, a text column and a numeric column
MaxRows == 2

ItemRow(id, name, amount) ==
    [c \in {"id", "name", "amount"} |->
        CASE c = "id" -> id [] c = "name" -> name [] c = "amount" -> amount]

\* predicted rows: two rows share the key 1, so that the first one wins
PredictedRows ==
    {ItemRow(VInt(1), VStr(S_ab), VInt(10)),
     ItemRow(VInt(1), VStr(S_ac), VInt(5)),
     ItemRow(VInt(2), VStr(S_ab), VInt(10))}

\* truth rows: the keys 1 and 2, and a null key, which equals no key
TruthRows ==
    {ItemRow(VInt(1), VStr(S_ab), VInt(10)),
     ItemRow(VInt(2), VStr(S_ab), VInt(10)),
     ItemRow(VNaN, VStr(S_ab), VInt(0))}

RowSeqs(rows, n) == UNION {[1..k -> rows] : k \in 0..n}

\* a frame keeps the columns in cols of each row
Project(rows, cols) == [i \in 1..Len(rows) |-> [c \in cols |-> rows[i][c]]]

ItemFrames(rowset, colsets) ==
    {DataFrame(cols, Project(rows, cols)) : cols \in colsets, rows \in RowSeqs(rowset, MaxRows)}

\* one-row tables with a key and the three columns of a date (the
\* acquiring_date, acquiring_month, acquiring_year of models/asset.py)
DateColumns == {"acquiring_date", "acquiring_month", "acquiring_year"}
DatedRow(id, d, m, y) ==
    [c \in {"id"} \cup DateColumns |->
        CASE c = "id" -> VInt(id)
          [] c = "acquiring_date" -> VInt(d)
          [] c = "acquiring_month" -> VInt(m)
          [] c = "acquiring_year" -> VInt(y)]
DatedFrame(row) == DataFrame({"id"} \cup DateColumns, <<row>>)

PredictedFrames ==
    ItemFrames(PredictedRows, {{"id", "name", "amount"}, {"id", "name"}, {"name", "amount"}})
        \cup {DatedFrame(DatedRow(1, 1, 1, 2020))}
TruthFrames ==
    ItemFrames(TruthRows, {{"id", "name", "amount"}})
        \cup {DatedFrame(DatedRow(1, 2, 1, 2020)), DatedFrame(DatedRow(1, 1, 1, 2021))}

KeyColumnChoices == {<<>>, <<"id">>, <<"id", "index">>}
FieldTypeChoices ==
    {Dict(<<"name">>, <<"text">>),
     Dict(<<"name", "amount">>, <<"text", "numeric">>),
     Dict(<<"amount", "flag">>, <<"numeric", "boolean">>),
     [c \in DateColumns |-> "date"]}

----------------------------------------------------------------------------
(* The calls.  The calculator keeps no state: a call is made on a fresh    *)
(* DQSCalculator and its arguments and result are recorded.                *)

\* the keys of NACCExtractionPipeline.all_results that the model follows
\* (pipeline.py:56-71): the tables whose rows carry an asset_id, and
\* submitter_info
ResultTables == {"submitter_info", "asset", "asset_land_info", "asset_building_info",
                 "asset_vehicle_info", "asset_other_asset_info"}

Idle == [op |-> "idle"]
NoTables == [t \in {} |-> EmptyFrame]
NoResult == [raises |-> "", value |-> <<>>]

Init ==
    /\ HAS_LEVENSHTEIN \in BOOLEAN
    /\ call = Idle
    /\ result = NoResult
    /\ filtered_gt = NoTables
    /\ matched_row = <<>>
    /\ tables_after = <<>>
    /\ table_scores = <<>>
    /\ section_scores = <<>>
    /\ remaining_pages = <<>>
    /\ batched_result = <<>>
    /\ oracle_calls = <<>>
    /\ processed_docs = 0
    /\ failed_docs = 0
    /\ all_results = [table_name \in ResultTables |-> <<>>]
    /\ next_asset_id = 1
    /\ doc_queue = <<>>
    /\ invocations = 0

FieldCall(op, p, t) == [op |-> op, predicted |-> p, ground_truth |-> t]

CalculateTextScore ==
    /\ call = Idle
    /\ \E p \in FieldValues, t \in FieldValues :
        /\ call' = FieldCall("calculate_text_score", p, t)
        /\ result' = Returns(calculate_text_score(p, t))
    /\ UNCHANGED <<HAS_LEVENSHTEIN, filtered_gt, matched_row,
                   scoringVars, extractorVars, pipelineVars>>

CalculateNumericScore ==
    /\ call = Idle
    /\ \E p \in FieldValues, t \in FieldValues :
        /\ call' = FieldCall("calculate_numeric_score", p, t)
        /\ result' = Returns(calculate_numeric_score(p, t))
    /\ UNCHANGED <<HAS_LEVENSHTEIN, filtered_gt, matched_row,
                   scoringVars, extractorVars, pipelineVars>>

CalculateEnumScore ==
    /\ call = Idle
    /\ \E p \in FieldValues, t \in FieldValues :
        /\ call' = FieldCall("calculate_enum_score", p, t)
        /\ result' = Returns(calculate_enum_score(p, t))
    /\ UNCHANGED <<HAS_LEVENSHTEIN, filtered_gt, matched_row,
                   scoringVars, extractorVars, pipelineVars>>

CalculateBooleanScore ==
    /\ call = Idle
    /\ \E p \in FieldValues, t \in FieldValues :
        /\ call' = FieldCall("calculate_boolean_score", p, t)
        /\ result' = Returns(calculate_boolean_score(p, t))
    /\ UNCHANGED <<HAS_LEVENSHTEIN, filtered_gt, matched_row,
                   scoringVars, extractorVars, pipelineVars>>

CalculateDateScore ==
    /\ call = Idle
    /\ \E pd \in DateDays, pm \in DateMonths, py \in DateYears,
          td \in DateDays, tm \in DateMonths, ty \in DateYears :
        /\ call' = [op |-> "calculate_date_score",
                    pred_date |-> pd, pred_month |-> pm, pred_year |-> py,
                    truth_date |-> td, truth_month |-> tm, truth_year |-> ty]
        /\ result' = calculate_date_score(pd, pm, py, td, tm, ty)
    /\ UNCHANGED <<HAS_LEVENSHTEIN, filtered_gt, matched_row,
                   scoringVars, extractorVars, pipelineVars>>

CalculateTableDqs ==
    /\ call = Idle
    /\ \E p \in PredictedFrames, t \in TruthFrames,
          k \in KeyColumnChoices, f \in FieldTypeChoices :
        /\ call' = [op |-> "calculate_table_dqs", predicted_df |-> p,
                    ground_truth_df |-> t, key_columns |-> k, field_types |-> f]
        /\ result' = Returns(calculate_table_dqs(p, t, k, f))
        /\ matched_row' = matched_positions(p, t, k)
        /\ tables_after' = [predicted_df |-> p, ground_truth_df |-> t]
    /\ UNCHANGED <<HAS_LEVENSHTEIN, filtered_gt, table_scores, section_scores,
                   extractorVars, pipelineVars>>

\* two calls of calculate_numeric_score against the same truth value, on
\* that value scaled by two multipliers
ScaledTruths == {<<5, 1>>, <<-5, 1>>, <<10, 1>>, <<15, 2>>}
Multipliers ==
    {<<-1, 1>>, <<0, 1>>, <<1, 2>>, <<3, 4>>, <<1, 1>>, <<5, 4>>, <<3, 2>>, <<2, 1>>, <<3, 1>>}

Scaled(m, t) == LET q == RMul(m, t) IN VFloat(q[1], q[2])

CalculateNumericScoreTwice ==
    /\ call = Idle
    /\ \E t \in ScaledTruths, m1 \in Multipliers, m2 \in Multipliers :
        /\ call' = [op |-> "calculate_numeric_score twice",
                    ground_truth |-> VFloat(t[1], t[2]),
                    multipliers |-> <<m1, m2>>,
                    predicted |-> <<Scaled(m1, t), Scaled(m2, t)>>]
        /\ result' = Returns(<<calculate_numeric_score(Scaled(m1, t), VFloat(t[1], t[2])),
                                calculate_numeric_score(Scaled(m2, t), VFloat(t[1], t[2]))>>)
    /\ UNCHANGED <<HAS_LEVENSHTEIN, filtered_gt, matched_row,
                   scoringVars, extractorVars, pipelineVars>>

SpecScaled == Init /\ [][CalculateNumericScoreTwice]_vars

NextField ==
    \/ CalculateTextScore
    \/ CalculateNumericScore
    \/ CalculateEnumScore
    \/ CalculateBooleanScore

SpecField == Init /\ [][NextField]_vars
SpecDate == Init /\ [][CalculateDateScore]_vars
SpecTable == Init /\ [][CalculateTableDqs]_vars

----------------------------------------------------------------------------
(* Inputs of calculate_overall_dqs: rows of submitter 1 (documents 10 and  *)
(* 11) and of submitter 2 (document 20).                                   *)

DocCols == {"submitter_id", "nacc_id", "title"}
DocRow(submitter_id, nacc_id, title) ==
    [c \in DocCols |->
        CASE c = "submitter_id" -> VInt(submitter_id)
          [] c = "nacc_id" -> VInt(nacc_id)
          [] c = "title" -> VStr(title)]
DocFrame(cols, rows) == DataFrame(cols, Project(rows, cols))

F_one == DocFrame(DocCols, <<DocRow(1, 10, S_ab)>>)
F_other_title == DocFrame(DocCols, <<DocRow(1, 10, S_xy)>>)
F_two_submitters == DocFrame(DocCols, <<DocRow(1, 10, S_ab), DocRow(2, 20, S_ab)>>)
F_two_documents == DocFrame(DocCols, <<DocRow(1, 10, S_ab), DocRow(1, 11, S_ab)>>)
F_nacc_only == DocFrame({"nacc_id", "title"}, <<DocRow(1, 10, S_ab)>>)
F_nacc_only_two == DocFrame({"nacc_id", "title"}, <<DocRow(1, 10, S_ab), DocRow(2, 20, S_ab)>>)
F_no_ids == DocFrame({"title"}, <<DocRow(1, 10, S_ab)>>)
F_no_ids_two == DocFrame({"title"}, <<DocRow(1, 10, S_ab), DocRow(2, 20, S_xy)>>)

\* what a dict holds under one name: nothing (no such key) or a frame
Absent == [present |-> FALSE, df |-> EmptyFrame]
Given(df) == [present |-> TRUE, df |-> df]

\* the tables that vary, and what each may hold on either side; every other
\* table is absent on both sides
ActiveTables == <<"submitter_info", "statement", "statement_detail", "asset", "relative_info">>

PredictedChoices(table_name) ==
    CASE table_name = "submitter_info" -> {Absent, Given(F_one), Given(F_other_title)}
      [] table_name = "statement" -> {Absent, Given(F_one)}
      [] table_name = "statement_detail" -> {Absent, Given(F_one), Given(F_nacc_only)}
      [] table_name = "asset" -> {Given(EmptyFrame), Given(F_no_ids)}
      [] table_name = "relative_info" -> {Absent, Given(F_one)}

TruthChoices(table_name) ==
    CASE table_name = "submitter_info" -> {Absent, Given(F_two_submitters)}
      [] table_name = "statement" -> {Absent, Given(F_one)}
      [] table_name = "statement_detail" -> {Absent, Given(F_two_submitters), Given(F_nacc_only_two)}
      [] table_name = "asset" -> {Absent, Given(F_two_submitters), Given(F_no_ids_two)}
      [] table_name = "relative_info" -> {Given(EmptyFrame), Given(F_two_documents)}

\* the dict holding choice[i].df under ActiveTables[i] when it is present
TableDict(choice) ==
    [t \in {ActiveTables[i] : i \in {j \in 1..Len(ActiveTables) : choice[j].present}} |->
        choice[CHOOSE i \in 1..Len(ActiveTables) : ActiveTables[i] = t].df]

CalculateOverallDqs ==
    /\ call = Idle
    /\ \E p1 \in PredictedChoices(ActiveTables[1]), p2 \in PredictedChoices(ActiveTables[2]),
          p3 \in PredictedChoices(ActiveTables[3]), p4 \in PredictedChoices(ActiveTables[4]),
          p5 \in PredictedChoices(ActiveTables[5]),
          t1 \in TruthChoices(ActiveTables[1]), t2 \in TruthChoices(ActiveTables[2]),
          t3 \in TruthChoices(ActiveTables[3]), t4 \in TruthChoices(ActiveTables[4]),
          t5 \in TruthChoices(ActiveTables[5]) :
        /\ call' = [op |-> "calculate_overall_dqs",
                    predicted |-> TableDict(<<p1, p2, p3, p4, p5>>),
                    ground_truth |-> TableDict(<<t1, t2, t3, t4, t5>>)]
        /\ filtered_gt' = filter_ground_truth(call'.predicted, call'.ground_truth)
        /\ result' = Returns(overall_report(call'.predicted, filtered_gt'))
        /\ tables_after' =
            [predicted |-> call'.predicted,
             ground_truth |-> ground_truth_after(call'.predicted, call'.ground_truth)]
    /\ UNCHANGED <<HAS_LEVENSHTEIN, matched_row, table_scores, section_scores,
                   extractorVars, pipelineVars>>

SpecOverall == Init /\ [][CalculateOverallDqs]_vars

(* Construction.  SECTION_WEIGHTS and TABLE_TO_SECTION are class attributes *)
(* (lines 18-42) that a subclass or an edit of the class can replace; the   *)
(* constructor takes no argument and its body is `pass`.                    *)

WeightChoices == {<<3, 20>>, <<1, 4>>, <<3, 10>>}
SectionWeightsChoices ==
    [{Sections[i] : i \in 1..Len(Sections)} -> WeightChoices]
TableToSectionChoices ==
    {TABLE_TO_SECTION,
     [t \in TableNames \ {"relative_info"} |-> TABLE_TO_SECTION[t]],
     [t \in TableNames \cup {"spouse_asset"} |->
        IF t = "spouse_asset" THEN "spouse_assets" ELSE TABLE_TO_SECTION[t]]}

\* def __init__(self): pass
DQSCalculator_init(section_weights, table_to_section) == Returns(VNone)

Construct ==
    /\ call = Idle
    /\ \E w \in SectionWeightsChoices, m \in TableToSectionChoices :
        /\ call' = [op |-> "__init__", SECTION_WEIGHTS |-> w, TABLE_TO_SECTION |-> m]
        /\ result' = DQSCalculator_init(w, m)
    /\ UNCHANGED <<HAS_LEVENSHTEIN, filtered_gt, matched_row,
                   scoringVars, extractorVars, pipelineVars>>

SpecConstruct == Init /\ [][Construct]_vars

(* calculate_overall_dqs with the passes of its loop over the tables        *)
(* (lines 416-447) as single steps.  The code visits the tables in the      *)
(* order of TABLE_TO_SECTION; here the pass for a table that the prediction *)
(* or the ground truth holds may be made at any time, as parallel workers   *)
(* would make them, while the tables that neither side holds are passed in  *)
(* the code's order among themselves.  The report is built when every table *)
(* has been scored.  A new call may follow a finished one.                  *)

ByTable == "calculate_overall_dqs, table by table"

StepPredicted ==
    {Dict(<<"submitter_info", "statement_detail", "asset", "relative_info">>,
          <<F_other_title, F_one, F_no_ids, F_one>>),
     Dict(<<"submitter_info", "statement", "statement_detail", "asset", "relative_info">>,
          <<F_one, F_other_title, F_nacc_only, F_no_ids, F_one>>),
     Dict(<<"statement", "asset">>, <<F_one, EmptyFrame>>)}
StepGroundTruth ==
    {Dict(<<"submitter_info", "statement", "statement_detail", "asset", "relative_info">>,
          <<F_two_submitters, F_one, F_two_submitters, F_no_ids_two, F_two_documents>>),
     Dict(<<"spouse_info", "statement", "statement_detail">>,
          <<F_one, F_one, F_nacc_only_two>>)}

\* a variant of score_step that keeps only the last score of a section
score_step_overwrite(scores, sections, table_name, outcome) ==
    [table_scores |-> [t \in DOMAIN scores \cup {table_name} |->
                          IF t = table_name THEN outcome.score ELSE scores[t]],
     section_scores |-> IF outcome.adds
                            THEN [sections EXCEPT ![TABLE_TO_SECTION[table_name]] =
                                                      <<outcome.score>>]
                            ELSE sections]

\* What one pass of the loop (lines 416-447) with the outcome `outcome` for
\* table_name makes of the locals table_scores and section_scores
score_step(scores, sections, table_name, outcome) ==
    [table_scores |-> [t \in DOMAIN scores \cup {table_name} |->
                          IF t = table_name THEN outcome.score ELSE scores[t]],
     section_scores |-> IF outcome.adds
                            THEN [sections EXCEPT ![TABLE_TO_SECTION[table_name]] =
                                                      Append(@, outcome.score)]
                            ELSE sections]

\* lines 449-465 on the locals
report_of(scores, sections) ==
    LET final_section_scores ==
            [s \in DOMAIN SECTION_WEIGHTS |-> section_average(sections[s])]
        overall_dqs == weighted_sum(final_section_scores, 1)
    IN  [overall_dqs |-> overall_dqs,
         passes_threshold |-> passes(overall_dqs),
         section_scores |-> final_section_scores,
         table_scores |-> scores]

\* lines 327-354: the filter and the empty locals
StartOverallDqs ==
    /\ call = Idle \/ (call.op = ByTable /\ result # NoResult)
    /\ \E predicted \in StepPredicted, ground_truth \in StepGroundTruth :
        /\ call' = [op |-> ByTable, predicted |-> predicted, ground_truth |-> ground_truth]
        /\ filtered_gt' = filter_ground_truth(predicted, ground_truth)
    /\ table_scores' = [t \in {} |-> R0]
    /\ section_scores' = [section \in DOMAIN SECTION_WEIGHTS |-> <<>>]
    /\ result' = NoResult
    /\ UNCHANGED <<HAS_LEVENSHTEIN, matched_row, tables_after, extractorVars, pipelineVars>>

\* the tables a pass may be made for next: any table that either side holds,
\* and the first, in the code's order, of the tables that neither side holds
GivenTables == DOMAIN call.predicted \cup DOMAIN call.ground_truth
MayScoreNext(table_name) ==
    /\ table_name \notin DOMAIN table_scores
    /\ \/ table_name \in GivenTables
       \/ \A i, j \in 1..Len(Tables) :
            (Tables[j] = table_name /\ i < j /\ Tables[i] \notin GivenTables)
                => Tables[i] \in DOMAIN table_scores

ScoreOneTable ==
    /\ call.op = ByTable
    /\ result = NoResult
    /\ \E table_name \in TableNames :
        /\ MayScoreNext(table_name)
        /\ \E outcome \in {score_table(table_name, call.predicted, filtered_gt)} :
            /\ table_scores' =
                   score_step(table_scores, section_scores, table_name, outcome).table_scores
            /\ section_scores' =
                   score_step(table_scores, section_scores, table_name, outcome).section_scores
    /\ UNCHANGED <<HAS_LEVENSHTEIN, call, result, filtered_gt, matched_row, tables_after,
                   extractorVars, pipelineVars>>

BuildReport ==
    /\ call.op = ByTable
    /\ result = NoResult
    /\ DOMAIN table_scores = TableNames
    /\ result' = Returns(report_of(table_scores, section_scores))
    /\ UNCHANGED <<HAS_LEVENSHTEIN, call, filtered_gt, matched_row, scoringVars,
                   extractorVars, pipelineVars>>

NextByTable == StartOverallDqs \/ ScoreOneTable \/ BuildReport

SpecByTable == Init /\ [][NextByTable]_vars

-----------------------------------------------------------------------------
(* ClaudeExtractor.extract_all_data_batched                                 *)
(* (src/src/extractors/claude_extractor.py:370-441).  A page is its number; *)
(* the model behind extract_all_data and _extract_assets_only is an oracle  *)
(* whose answers are drawn.  An asset is [index, origin]: the index it      *)
(* carries and, for the properties only, the number of the oracle call that *)
(* produced it.                                                             *)

MaxPages == 5
MaxBatch == 2

Batched == "extract_all_data_batched"

\* page_images[:k] and page_images[k:], for k >= 0
SliceTo(seq, k) == SubSeq(seq, 1, IF k < Len(seq) THEN k ELSE Len(seq))

\* a variant of SliceFrom that loses the first page of the rest
SliceFrom_off_by_one(seq, k) == SubSeq(seq, k + 2, Len(seq))

SliceFrom(seq, k) == SubSeq(seq, k + 1, Len(seq))

Asset(index, origin) == [index |-> index, origin |-> origin]
AssetList(count, origin) == [i \in 1..count |-> Asset(i, origin)]

\* What extract_all_data can do (lines 113-308): raise (the API call fails,
\* or _parse_json_response finds no JSON, line 83), or return the parsed
\* object: without "assets", with "assets": null, or with a list of assets
FullAnswers ==
    {[raises |-> "Exception", assets |-> "absent", items |-> <<>>],
     [raises |-> "", assets |-> "absent", items |-> <<>>],
     [raises |-> "", assets |-> "null", items |-> <<>>]}
    \cup {[raises |-> "", assets |-> "list", items |-> AssetList(count, 1)] : count \in 0..2}

\* What _extract_assets_only returns (lines 490-497): the list the oracle
\* gave, or [] when the call raised or the answer is not a list
AssetsOnlyAnswers(origin) == {AssetList(count, origin) : count \in 0..1}

ResultDict(answer) == [assets |-> answer.assets, items |-> answer.items]

OracleCall(method, pages, returned) ==
    [method |-> method, pages |-> pages, returned |-> returned]

\* max([a.get('index', 0) for a in existing_assets], default=0)
RECURSIVE max_index(_)
max_index(existing_assets) ==
    IF existing_assets = <<>> THEN 0
    ELSE IMax(existing_assets[1].index, max_index(Tail(existing_assets)))

\* lines 429-436: the additional assets renumbered from max_idx + 1 and
\* put after the existing ones
merge_assets(existing_assets, additional_assets) ==
    LET max_idx == max_index(existing_assets)
    IN  existing_assets \o
            [i \in 1..Len(additional_assets) |->
                Asset(max_idx + i, additional_assets[i].origin)]

\* lines 395-414: the small document in one call, or the first batch
ExtractAllDataBatched ==
    /\ call = Idle
    /\ \E num_pages \in 0..MaxPages, max_pages_per_batch \in 1..MaxBatch,
          answer \in FullAnswers :
        LET page_images == [i \in 1..num_pages |-> i]
            first_batch == SliceTo(page_images, max_pages_per_batch)
        IN  /\ call' = [op |-> Batched, page_images |-> page_images,
                        max_pages_per_batch |-> max_pages_per_batch]
            /\ IF num_pages <= max_pages_per_batch
                 THEN /\ oracle_calls' =
                            <<OracleCall("extract_all_data", page_images, answer.items)>>
                      /\ result' = IF answer.raises # "" THEN Raises(answer.raises)
                                   ELSE Returns(ResultDict(answer))
                      /\ UNCHANGED <<remaining_pages, batched_result>>
                 ELSE /\ oracle_calls' =
                            <<OracleCall("extract_all_data", first_batch, answer.items)>>
                      /\ IF answer.raises # ""
                           THEN /\ result' = Raises(answer.raises)
                                /\ UNCHANGED <<remaining_pages, batched_result>>
                           ELSE /\ result' = NoResult
                                /\ batched_result' = ResultDict(answer)
                                /\ remaining_pages' =
                                       SliceFrom(page_images, max_pages_per_batch)
    /\ UNCHANGED <<HAS_LEVENSHTEIN, filtered_gt, matched_row, scoringVars, pipelineVars>>

\* lines 416-438: one pass of `while remaining_pages`
ExtractBatch ==
    /\ call.op = Batched
    /\ result = NoResult
    /\ remaining_pages # <<>>
    /\ \E additional_assets \in AssetsOnlyAnswers(Len(oracle_calls) + 1) :
        LET batch == SliceTo(remaining_pages, call.max_pages_per_batch)
        IN  /\ remaining_pages' = SliceFrom(remaining_pages, call.max_pages_per_batch)
            /\ oracle_calls' =
                   Append(oracle_calls,
                          OracleCall("_extract_assets_only", batch, additional_assets))
            /\ IF additional_assets = <<>>
                 THEN UNCHANGED <<batched_result, result>>
                 ELSE IF batched_result.assets = "null"
                     \* for a in None: TypeError
                     THEN /\ result' = Raises("TypeError")
                          /\ UNCHANGED batched_result
                     ELSE /\ batched_result' =
                                [assets |-> "list",
                                 items |-> merge_assets(batched_result.items,
                                                        additional_assets)]
                          /\ UNCHANGED result
    /\ UNCHANGED <<HAS_LEVENSHTEIN, call, filtered_gt, matched_row, scoringVars, pipelineVars>>

\* lines 440-441
ReturnBatched ==
    /\ call.op = Batched
    /\ result = NoResult
    /\ remaining_pages = <<>>
    /\ result' = Returns(batched_result)
    /\ UNCHANGED <<HAS_LEVENSHTEIN, call, filtered_gt, matched_row, scoringVars,
                   extractorVars, pipelineVars>>

NextBatched == ExtractAllDataBatched \/ ExtractBatch \/ ReturnBatched

SpecBatched == Init /\ [][NextBatched]_vars

\* The method is sequential code: once entered it goes on to its next
\* statement, and each oracle call is taken to come back.
SpecBatchedFair ==
    SpecBatched /\ WF_vars(ExtractBatch) /\ WF_vars(ReturnBatched)

-----------------------------------------------------------------------------
(* NACCExtractionPipeline (src/src/pipeline.py): process_batch and the      *)
(* process_document calls it makes.  Of the 14 tables of all_results the    *)
(* model follows submitter_info and the five tables whose rows carry an     *)
(* asset_id; of a row it keeps the ids.  A frame appended to all_results is *)
(* [doc, rows], doc being the number of the process_document call that      *)
(* built it (kept for the properties only).                                 *)

MaxDocs == 2

InfoTables ==
    [land_info |-> "asset_land_info", building_info |-> "asset_building_info",
     vehicle_info |-> "asset_vehicle_info", other_info |-> "asset_other_asset_info"]

ExtractedAsset(asset_type_id, infos) == [asset_type_id |-> asset_type_id, infos |-> infos]

\* the "assets" lists an extraction may hold: a plot of land, a car, a
\* building, an other asset, and a right (type 22) that comes with a
\* land_info it gets no row for
ExtractedAssetLists ==
    {<<>>,
     <<ExtractedAsset(1, {"land_info"})>>,
     <<ExtractedAsset(1, {"land_info"}), ExtractedAsset(18, {"vehicle_info"})>>,
     <<ExtractedAsset(10, {"building_info"}), ExtractedAsset(28, {"other_info"})>>,
     <<ExtractedAsset(22, {"land_info"}), ExtractedAsset(1, {"land_info", "other_info"})>>}

\* What happens inside the try block of process_document (lines 101-383):
\* the extraction returns `extracted` and every row is built (fails_at = -1),
\* or an exception is raised: by the PDF reader or the extractor
\* (fails_at = 0), or while the asset number fails_at is handled, after its
\* asset_id was taken (lines 266-274)
DocumentOutcomes ==
    {[submitter |-> s, assets |-> a, fails_at |-> f] :
        s \in BOOLEAN, a \in ExtractedAssetLists, f \in {-1}}
    \cup {[submitter |-> TRUE, assets |-> a, fails_at |-> f] :
            a \in {x \in ExtractedAssetLists : Len(x) = 2}, f \in 0..2}

\* lines 322, 341, 354, 380: the ranges of asset_type_id that get an info row
InfoRange(info) ==
    CASE info = "land_info" -> 1..9
      [] info = "building_info" -> 10..17
      [] info = "vehicle_info" -> 18..21
      [] info = "other_info" -> 28..35

\* a variant of asset_id_of that numbers the assets of each document from 1
asset_id_per_document(first_asset_id, i) == i

\* lines 267-268: asset_id = self.next_asset_id; self.next_asset_id += 1, for
\* the i-th asset of a document entered with next_asset_id = first_asset_id
asset_id_of(first_asset_id, i) == first_asset_id + i - 1

IdRow(asset_id, nacc_id, submitter_id) ==
    [asset_id |-> asset_id, nacc_id |-> nacc_id, submitter_id |-> submitter_id]

\* the rows of one info table, in asset order (lines 320-381)
RECURSIVE info_rows(_, _, _, _, _, _)
info_rows(assets, i, info, first_asset_id, nacc_id, submitter_id) ==
    IF i > Len(assets) THEN <<>>
    ELSE (IF info \in assets[i].infos /\ assets[i].asset_type_id \in InfoRange(info)
            THEN <<IdRow(asset_id_of(first_asset_id, i), nacc_id, submitter_id)>>
            ELSE <<>>)
         \o info_rows(assets, i + 1, info, first_asset_id, nacc_id, submitter_id)

\* `results` at line 394 for the tables followed
document_rows(extracted, first_asset_id, nacc_id, submitter_id) ==
    [table_name \in ResultTables |->
        IF table_name = "submitter_info"
            THEN (IF extracted.submitter THEN <<IdRow(0, nacc_id, submitter_id)>> ELSE <<>>)
        ELSE IF table_name = "asset"
            THEN [i \in 1..Len(extracted.assets) |->
                    IdRow(asset_id_of(first_asset_id, i), nacc_id, submitter_id)]
        ELSE LET info == CHOOSE k \in DOMAIN InfoTables : InfoTables[k] = table_name
             IN  info_rows(extracted.assets, 1, info, first_asset_id, nacc_id, submitter_id)]

\* a variant of count_document that counts a failed document as processed
count_document_always_processed(processed, failed, raised) ==
    [processed_docs |-> processed + 1, failed_docs |-> failed]

\* lines 385-390: the counters after the try block
count_document(processed, failed, raised) ==
    IF raised THEN [processed_docs |-> processed, failed_docs |-> failed + 1]
    ELSE [processed_docs |-> processed + 1, failed_docs |-> failed]

\* lines 461-464: the non-empty frames of a document are appended
aggregate(results_so_far, rows, doc) ==
    [table_name \in ResultTables |->
        IF rows[table_name] # <<>>
            THEN Append(results_so_far[table_name], [doc |-> doc, rows |-> rows[table_name]])
            ELSE results_so_far[table_name]]

\* lines 470-476: pd.concat of the frames of a table (an empty frame if none)
RECURSIVE concat(_)
concat(df_list) == IF df_list = <<>> THEN <<>> ELSE df_list[1].rows \o concat(Tail(df_list))
combined == [table_name \in ResultTables |-> concat(all_results[table_name])]

InBatch ==
    \/ call.op = "process_document"
    \/ call.op = "process_batch" /\ ~call.done

\* lines 413-431: doc_info is read; its rows are the documents 1..k
ProcessBatch ==
    /\ \/ call = Idle
       \/ call.op = "process_batch" /\ call.done
    /\ \E k \in 0..(MaxDocs - invocations) :
        doc_queue' = [i \in 1..k |-> i]
    /\ call' = [op |-> "process_batch", done |-> FALSE]
    /\ result' = NoResult
    /\ UNCHANGED <<HAS_LEVENSHTEIN, filtered_gt, matched_row, scoringVars, extractorVars,
                   processed_docs, failed_docs, all_results, next_asset_id, invocations>>

\* lines 433-446: a row without a PDF file is passed over
SkipDocument ==
    /\ InBatch
    /\ doc_queue # <<>>
    /\ doc_queue' = Tail(doc_queue)
    /\ UNCHANGED <<HAS_LEVENSHTEIN, call, result, filtered_gt, matched_row, scoringVars,
                   extractorVars, processed_docs, failed_docs, all_results,
                   next_asset_id, invocations>>

\* lines 448-468 with the process_document call (lines 79-394) they make
ProcessDocument ==
    /\ InBatch
    /\ doc_queue # <<>>
    /\ \E outcome \in DocumentOutcomes :
        LET nacc_id == Head(doc_queue)
            submitter_id == nacc_id
            raised == outcome.fails_at >= 0
            taken == IF raised THEN outcome.fails_at ELSE Len(outcome.assets)
            rows == document_rows(outcome, next_asset_id, nacc_id, submitter_id)
            counters == count_document(processed_docs, failed_docs, raised)
        IN  /\ call' = [op |-> "process_document", nacc_id |-> nacc_id,
                        submitter_id |-> submitter_id]
            /\ next_asset_id' = next_asset_id + taken
            /\ processed_docs' = counters.processed_docs
            /\ failed_docs' = counters.failed_docs
            /\ result' = IF raised THEN Raises("Exception") ELSE Returns(rows)
            /\ all_results' = IF raised THEN all_results
                              ELSE aggregate(all_results, rows, invocations + 1)
    /\ invocations' = invocations + 1
    /\ doc_queue' = Tail(doc_queue)
    /\ UNCHANGED <<HAS_LEVENSHTEIN, filtered_gt, matched_row, scoringVars, extractorVars>>

\* lines 470-476
FinishBatch ==
    /\ InBatch
    /\ doc_queue = <<>>
    /\ call' = [op |-> "process_batch", done |-> TRUE]
    /\ result' = Returns(combined)
    /\ UNCHANGED <<HAS_LEVENSHTEIN, filtered_gt, matched_row, scoringVars, extractorVars,
                   pipelineVars>>

NextPipeline == ProcessBatch \/ SkipDocument \/ ProcessDocument \/ FinishBatch

SpecPipeline == Init /\ [][NextPipeline]_vars

\* a call of one of the calculator's public methods
NextCalculator ==
    \/ CalculateTextScore
    \/ CalculateNumericScore
    \/ CalculateEnumScore
    \/ CalculateBooleanScore
    \/ CalculateDateScore
    \/ CalculateTableDqs
    \/ CalculateOverallDqs
    \/ CalculateNumericScoreTwice

SpecCalculator == Init /\ [][NextCalculator]_vars

Next ==
    \/ NextCalculator
    \/ Construct
    \/ NextByTable
    \/ NextBatched
    \/ NextPipeline

Spec == Init /\ [][Next]_vars

----------------------------------------------------------------------------
(* Properties of calculate_table_dqs.                                      *)

IsTableCall == call.op = "calculate_table_dqs"

SeqRange(seq) == {seq[i] : i \in 1..Len(seq)}

\* the predicted rows that agree with truth row i on every key column that
\* both tables have
Candidates(p, t, keys, i) ==
    {j \in 1..Len(p.rows) :
        \A key \in SeqRange(keys) \cap p.cols \cap t.cols :
            CellEq(p.rows[j][key], t.rows[i][key])}

MatchedTruthRows(p, t, keys) == {i \in 1..Len(t.rows) : Candidates(p, t, keys, i) # {}}

\* the score of field f on truth row i against its first candidate
MatchedFieldScore(p, t, keys, types, f, i) ==
    field_score(types[f], p.rows[SetMin(Candidates(p, t, keys, i))][f], t.rows[i][f])

RECURSIVE SumOfScores(_, _, _, _, _, _)
SumOfScores(p, t, keys, types, f, rows) ==
    IF rows = {} THEN R0
    ELSE LET i == CHOOSE x \in rows : TRUE
         IN  RAdd(MatchedFieldScore(p, t, keys, types, f, i),
                  SumOfScores(p, t, keys, types, f, rows \ {i}))

ExpectedPerField(p, t, keys, types) ==
    LET matched == MatchedTruthRows(p, t, keys)
    IN  [f \in {g \in DOMAIN types \cap p.cols \cap t.cols : matched # {}} |->
            RDiv(SumOfScores(p, t, keys, types, f, matched), <<Cardinality(matched), 1>>)]

ExpectedCoverage(p, t, keys) ==
    Rat(Cardinality(MatchedTruthRows(p, t, keys)), Len(t.rows))

\* C1: for non-empty predicted and truth tables, per_field[f] is the mean of
\* field f's scores over the truth rows that found a match (an unmatched row
\* adds no score), coverage is matched rows / truth rows, and overall is
\* mean(per_field) x coverage (0 when no field was scored); matching 1 of 2
\* truth rows with perfect scores on the matched row gives 1/2.
C1_TableScore ==
    (IsTableCall /\ ~IsEmpty(call.predicted_df) /\ ~IsEmpty(call.ground_truth_df)) =>
        LET p == call.predicted_df
            t == call.ground_truth_df
            per_field == ExpectedPerField(p, t, call.key_columns, call.field_types)
        IN  /\ result.value.per_field = per_field
            /\ result.value.overall =
                   IF DOMAIN per_field = {} THEN R0
                   ELSE RMul(RDiv(DictSum(per_field, DOMAIN per_field),
                                  <<Cardinality(DOMAIN per_field), 1>>),
                             ExpectedCoverage(p, t, call.key_columns))
            /\ (/\ Len(t.rows) = 2
                /\ Cardinality(MatchedTruthRows(p, t, call.key_columns)) = 1
                /\ DOMAIN per_field # {}
                /\ \A f \in DOMAIN per_field : per_field[f] = R1)
               => result.value.overall = RHalf

\* one of two truth rows matched, every scored field perfect, two fields scored
C1_Witness ==
    /\ IsTableCall
    /\ Len(call.ground_truth_df.rows) = 2
    /\ Cardinality(MatchedTruthRows(call.predicted_df, call.ground_truth_df,
                                    call.key_columns)) = 1
    /\ Cardinality(DOMAIN result.value.per_field) = 2
    /\ \A f \in DOMAIN result.value.per_field : result.value.per_field[f] = R1
    /\ result.value.overall = RHalf

\* C2: on degenerate inputs calculate_table_dqs returns (1.0, {}) when both
\* tables are empty, (0.0, {}) when only the predicted table is empty, and
\* (1.0, {}) when only the truth table is empty, whatever the key columns and
\* the field types.
C2_DegenerateTables ==
    IsTableCall =>
        LET pe == IsEmpty(call.predicted_df)
            te == IsEmpty(call.ground_truth_df)
        IN  /\ (pe /\ te) => result.value = TableResult(R1, EmptyDict)
            /\ (pe /\ ~te) => result.value = TableResult(R0, EmptyDict)
            /\ (~pe /\ te) => result.value = TableResult(R1, EmptyDict)

\* predicted rows scored against an empty truth table
C2_Witness ==
    /\ IsTableCall
    /\ Len(call.predicted_df.rows) = 2
    /\ IsEmpty(call.ground_truth_df)
    /\ call.key_columns = <<"id">>
    /\ result.value = TableResult(R1, EmptyDict)

----------------------------------------------------------------------------
(* Properties of calculate_overall_dqs.                                    *)

IsOverallCall == call.op = "calculate_overall_dqs"

PredictedEmpty(t) == IsEmpty(DictGet(call.predicted, t))
TruthEmpty(t) == IsEmpty(DictGet(filtered_gt, t))

Members(section) == {t \in TableNames : TABLE_TO_SECTION[t] = section}

\* the member tables that contribute a score to their section: all but
\* those that are empty or absent on both sides
Contributors(section) == {t \in Members(section) : ~(PredictedEmpty(t) /\ TruthEmpty(t))}

\* C3: a section's score is the mean of the scores its member tables
\* contribute (0.0 when none contributes); a table empty or absent in the
\* prediction but non-empty in the filtered ground truth contributes exactly
\* 0.0, and a table empty or absent on both sides contributes nothing.
C3_SectionScore ==
    IsOverallCall =>
        \A section \in DOMAIN SECTION_WEIGHTS :
            LET from == Contributors(section)
                report == result.value
            IN  /\ \A t \in from : PredictedEmpty(t) => report.table_scores[t] = R0
                /\ report.section_scores[section] =
                       IF from = {} THEN R0
                       ELSE RDiv(DictSum(report.table_scores, from), <<Cardinality(from), 1>>)

\* "statement" is missing from the prediction and drags its section from
\* 1.0 to 0.5, while the five tables absent on both sides leave the 0.0 of
\* "submitter_info" undiluted
C3_Witness ==
    /\ IsOverallCall
    /\ PredictedEmpty("statement") /\ ~TruthEmpty("statement")
    /\ result.value.table_scores["statement_detail"] = R1
    /\ result.value.section_scores["statement_details"] = RHalf
    /\ ~PredictedEmpty("submitter_info")
    /\ PredictedEmpty("spouse_info") /\ TruthEmpty("spouse_info")
    /\ result.value.table_scores["spouse_info"] = R1
    /\ result.value.section_scores["submitter_spouse"] = R0

ExampleSectionScores ==
    [section \in DOMAIN SECTION_WEIGHTS |->
        CASE section = "submitter_spouse" -> R1
          [] section = "statement_details" -> RHalf
          [] section = "assets" -> R0
          [] section = "relatives" -> RHalf]

\* C4: overall_dqs is the sum over the sections of section score x weight,
\* the weights are 0.25, 0.30, 0.30, 0.15 and sum to 1.0, passes_threshold is
\* true exactly when overall_dqs >= 0.70, and the section scores 1.0, 0.5,
\* 0.0, 0.5 give overall_dqs = 0.475 and passes_threshold = False.
C4_WeightedRollup ==
    IsOverallCall =>
        LET report == result.value
            ss == report.section_scores
        IN  /\ report.overall_dqs =
                   RAdd(RAdd(RMul(ss["submitter_spouse"], <<25, 100>>),
                             RMul(ss["statement_details"], <<30, 100>>)),
                        RAdd(RMul(ss["assets"], <<30, 100>>),
                             RMul(ss["relatives"], <<15, 100>>)))
            /\ DictSum(SECTION_WEIGHTS, DOMAIN SECTION_WEIGHTS) = R1
            /\ report.passes_threshold = RLe(<<70, 100>>, report.overall_dqs)
            /\ ss = ExampleSectionScores =>
                   report.overall_dqs = Rat(475, 1000) /\ ~report.passes_threshold

\* the example of the claim: section scores 1.0, 0.5, 0.0, 0.5
C4_Witness ==
    /\ IsOverallCall
    /\ result.value.section_scores = ExampleSectionScores
    /\ result.value.overall_dqs = <<19, 40>>
    /\ ~result.value.passes_threshold

\* a report that passes the threshold
C4_WitnessPass ==
    /\ IsOverallCall
    /\ result.value.passes_threshold
    /\ result.value.overall_dqs # R1

\* the identifier columns of the filter (lines 344-347)
IdColumns == {"submitter_id", "nacc_id"}

\* some predicted table holds the value v in its column col
OccursInPrediction(col, v) ==
    \E t \in DOMAIN call.predicted :
        /\ col \in call.predicted[t].cols
        /\ \E i \in 1..Len(call.predicted[t].rows) : CellEq(call.predicted[t].rows[i][col], v)

\* C5: every ground-truth row that a table is scored against carries a
\* submitter_id or nacc_id that occurs in the predicted output, and none of
\* these rows belongs to a submitter or a document (a submitter_id or a
\* nacc_id) that the prediction does not hold.
C5_FilteredToPrediction ==
    IsOverallCall =>
        \A t \in TableNames :
            LET truth_df == DictGet(filtered_gt, t)
            IN  \A i \in 1..Len(truth_df.rows) :
                    /\ \E col \in IdColumns \cap truth_df.cols :
                           OccursInPrediction(col, truth_df.rows[i][col])
                    /\ \A col \in IdColumns \cap truth_df.cols :
                           OccursInPrediction(col, truth_df.rows[i][col])

----------------------------------------------------------------------------
(* Properties of every score.                                              *)

FieldOps == {"calculate_text_score", "calculate_numeric_score",
             "calculate_enum_score", "calculate_boolean_score"}
IsFieldCall == call.op \in FieldOps
IsDateCall == call.op = "calculate_date_score"

InUnitInterval(q) == RLe(R0, q) /\ RLe(q, R1)

\* C6: every score lies in [0,1]: the value each field scorer and the date
\* scorer returns, each per-field and overall table score, each table and
\* section score of a report and its overall_dqs.
C6_ScoresInUnitInterval ==
    /\ IsFieldCall => InUnitInterval(result.value)
    /\ (IsDateCall /\ result.raises = "") => InUnitInterval(result.value)
    /\ IsTableCall =>
           /\ InUnitInterval(result.value.overall)
           /\ \A f \in DOMAIN result.value.per_field :
                  InUnitInterval(result.value.per_field[f])
    /\ IsOverallCall =>
           /\ InUnitInterval(result.value.overall_dqs)
           /\ \A s \in DOMAIN result.value.section_scores :
                  InUnitInterval(result.value.section_scores[s])
           /\ \A t \in DOMAIN result.value.table_scores :
                  InUnitInterval(result.value.table_scores[t])

\* a numeric score whose relative error exceeds 1 (|10 - 1| / 1 = 9) and that
\* is clamped to 0
C6_Witness ==
    /\ call.op = "calculate_numeric_score"
    /\ call.predicted = VInt(10)
    /\ call.ground_truth = VInt(1)
    /\ result.value = R0

----------------------------------------------------------------------------
(* Properties of the field scorers.                                        *)

\* a value is absent when it is null (None, NaN) or the text "NONE" in any
\* letter case, surrounding blanks aside
IsAbsentValue(v) == IsNa(v) \/ (v.k = "str" /\ StrUpper(Strip(v.s)) = NONE)

\* text that is empty once trimmed
IsBlank(v) == v.k = "str" /\ Strip(v.s) = <<>>

ExactlyOne(a, b) == (a /\ ~b) \/ (~a /\ b)

\* C7: for every field kind, when both values are absent (null or "NONE" in
\* any letter case, in any combination) the score is 1.0.
C7_NullNull ==
    (IsFieldCall /\ IsAbsentValue(call.predicted) /\ IsAbsentValue(call.ground_truth))
        => result.value = R1

\* the words calculate_boolean_score reads as true or false
BooleanWords ==
    {<<"t","r","u","e">>, <<"1">>, <<"y","e","s">>, <<"f","a","l","s","e">>, <<"0">>, <<"n","o">>}

\* a value that is null, or that is neither a bool nor one of BooleanWords
IsBooleanNull(v) ==
    IsNa(v) \/ (v.k # "bool" /\ StrLower(Strip(PyStr(v))) \notin BooleanWords)

\* the two halves of the null-asymmetry rule; with blank_is_present the rule
\* also covers a blank text opposite an absent one
OneSidedAbsence(blank_is_present) ==
    /\ (/\ call.op \in {"calculate_text_score", "calculate_numeric_score",
                        "calculate_enum_score"}
        /\ ExactlyOne(IsAbsentValue(call.predicted), IsAbsentValue(call.ground_truth))
        /\ \/ blank_is_present
           \/ call.op # "calculate_text_score"
           \/ ~(IsBlank(call.predicted) \/ IsBlank(call.ground_truth)))
       => result.value = R0
    /\ (/\ call.op = "calculate_boolean_score"
        /\ ExactlyOne(IsBooleanNull(call.predicted), IsBooleanNull(call.ground_truth)))
       => result.value = RHalf

\* C8 as stated: for text, numeric and enum fields, exactly one side absent
\* and the other present scores 0.0; for boolean fields, exactly one side
\* null or unparseable scores 0.5.
C8_Original == OneSidedAbsence(TRUE)

\* C8: for numeric and enum fields, and for text fields whose present side is
\* not blank after trimming, exactly one side absent scores 0.0; for boolean
\* fields, exactly one side null or unparseable scores exactly 0.5.
C8_NullAsymmetry == OneSidedAbsence(FALSE)

\* score_numeric(5, None) == 0.0
C8_Witness ==
    /\ call.op = "calculate_numeric_score"
    /\ call.predicted = VInt(5)
    /\ call.ground_truth = VNone
    /\ result.value = R0

\* a boolean opposite an unparseable text scores 0.5
C8_WitnessBoolean ==
    /\ call.op = "calculate_boolean_score"
    /\ call.predicted = VBool(TRUE)
    /\ call.ground_truth = VStr(S_ab)
    /\ result.value = RHalf

\* the least number of single-character insertions, deletions and
\* substitutions that turn a into b, by the table of prefix distances
EditDistance(a, b) ==
    LET d[i \in 0..Len(a), j \in 0..Len(b)] ==
            IF i = 0 THEN j
            ELSE IF j = 0 THEN i
            ELSE LET del == d[i - 1, j] + 1
                     ins == d[i, j - 1] + 1
                     sub == d[i - 1, j - 1] + (IF a[i] = b[j] THEN 0 ELSE 1)
                 IN  IF del <= ins /\ del <= sub THEN del
                     ELSE IF ins <= sub THEN ins ELSE sub
    IN  d[Len(a), Len(b)]

\* a value as text, trimmed, with "NONE" in any letter case read as empty
Normalized(v) ==
    LET trimmed == Strip(PyStr(v))
    IN  IF StrUpper(trimmed) = NONE THEN <<>> ELSE trimmed

IsTextCallOnValues ==
    /\ call.op = "calculate_text_score"
    /\ ~IsNa(call.predicted)
    /\ ~IsNa(call.ground_truth)

\* max(0, 1 - d / max(len(truth), 1))
OneMinusCer(d, truth) ==
    LET len == IF Len(truth) >= 1 THEN Len(truth) ELSE 1
    IN  IF d >= len THEN R0 ELSE Rat(len - d, len)

\* what both statements of C9 say of an empty truth and of equal arguments
TextScoreEdges ==
    LET pred == Normalized(call.predicted)
        truth == Normalized(call.ground_truth)
    IN  /\ (truth = <<>> /\ pred # <<>>) => result.value = R0
        /\ (truth = <<>> /\ pred = <<>>) => result.value = R1
        /\ call.predicted = call.ground_truth => result.value = R1

C9_WitnessFallback ==
    /\ ~HAS_LEVENSHTEIN
    /\ call.op = "calculate_text_score"
    /\ call.predicted = VStr(S_ab)
    /\ call.ground_truth = VStr(S_ac)
    /\ result.value = R0

\* C10: on two non-null values that parse as finite numbers the numeric
\* score is max(0, 1 - |predicted - truth| / |truth|) when truth # 0, and
\* when truth = 0 it is 1.0 if predicted = 0 and 0.0 otherwise; it is 0.0
\* when the predicted value does not parse as a number.
C10_NumericScore ==
    (call.op = "calculate_numeric_score" /\ ~IsNa(call.predicted) /\ ~IsNa(call.ground_truth)) =>
        LET pred == PyFloat(call.predicted)
            truth == PyFloat(call.ground_truth)
            diff == RAbs(RSub(pred.q, truth.q))
            mag == RAbs(truth.q)
        IN  /\ (pred.ok /\ pred.fin /\ truth.ok /\ truth.fin /\ truth.q # R0) =>
                   IF RLe(mag, diff) THEN result.value = R0
                   ELSE RMul(result.value, mag) = RSub(mag, diff)
            /\ (pred.ok /\ pred.fin /\ truth.ok /\ truth.fin /\ truth.q = R0) =>
                   result.value = IF pred.q = R0 THEN R1 ELSE R0
            /\ ~pred.ok => result.value = R0

\* "7.5" against 5: relative error 2.5 / 5, score 0.5
C10_Witness ==
    /\ call.op = "calculate_numeric_score"
    /\ call.predicted = VStr(<<"7",".","5">>)
    /\ call.ground_truth = VInt(5)
    /\ result.value = RHalf

\* a prediction that is no number scores 0.0 against a number
C10_WitnessUnparsed ==
    /\ call.op = "calculate_numeric_score"
    /\ call.predicted = VStr(S_ab)
    /\ call.ground_truth = VInt(5)
    /\ result.value = R0

----------------------------------------------------------------------------
(* Properties of calculate_date_score.                                     *)

\* a date component that is null or the text "NONE" in any letter case
IsMissing(v) == IsNa(v) \/ StrUpper(PyStr(v)) = NONE

\* a component that is there and reads as an integer
Parses(v) == ~IsMissing(v) /\ PyInt(v).exc = ""

PredictedSideNull ==
    IsMissing(call.pred_date) /\ IsMissing(call.pred_month) /\ IsMissing(call.pred_year)
TruthSideNull ==
    IsMissing(call.truth_date) /\ IsMissing(call.truth_month) /\ IsMissing(call.truth_year)

\* the two values of one component agree: both missing, or both integers
\* and the same integer
Agree(p, t) ==
    \/ IsMissing(p) /\ IsMissing(t)
    \/ Parses(p) /\ Parses(t) /\ PyInt(p).i = PyInt(t).i

\* C11: when the two sides are not both fully null, a returned date score is
\* 0.0 whenever the years do not agree; a year that is missing on one side
\* only, or unparseable on either side, does not agree with the other year.
C11_YearDominance ==
    (/\ IsDateCall
     /\ result.raises = ""
     /\ ~(PredictedSideNull /\ TruthSideNull)
     /\ ~Agree(call.pred_year, call.truth_year))
        => result.value = R0

\* a component that is missing or reads as a non-zero integer
WellFormed(v) == IsMissing(v) \/ (Parses(v) /\ PyInt(v).i # 0)

DayDifference ==
    LET d == PyInt(call.pred_date).i - PyInt(call.truth_date).i
    IN  IF d < 0 THEN -d ELSE d

\* C12: the tiers of calculate_date_score on well-formed components, in
\* order: both sides fully null 1.0; one side fully null 0.0; years agree and
\* months differ 0.3; years and months agree and the days are present and
\* equal 1.0; one day absent 0.5; days differ by at most 3 0.8; by more 0.5.
C12_DateTiers ==
    (/\ IsDateCall
     /\ result.raises = ""
     /\ \A v \in {call.pred_date, call.pred_month, call.pred_year,
                  call.truth_date, call.truth_month, call.truth_year} : WellFormed(v))
        => IF PredictedSideNull /\ TruthSideNull THEN result.value = R1
           ELSE IF PredictedSideNull \/ TruthSideNull THEN result.value = R0
           ELSE IF ~Agree(call.pred_year, call.truth_year) THEN result.value = R0
           ELSE IF ~Agree(call.pred_month, call.truth_month) THEN result.value = <<3, 10>>
           ELSE /\ (Parses(call.pred_date) /\ Parses(call.truth_date) /\ DayDifference = 0)
                       => result.value = R1
                /\ ExactlyOne(IsMissing(call.pred_date), IsMissing(call.truth_date))
                       => result.value = RHalf
                /\ (Parses(call.pred_date) /\ Parses(call.truth_date)
                        /\ DayDifference \in 1..3) => result.value = <<4, 5>>
                /\ (Parses(call.pred_date) /\ Parses(call.truth_date)
                        /\ DayDifference > 3) => result.value = RHalf

----------------------------------------------------------------------------
(* Properties of calculate_boolean_score and calculate_enum_score.         *)

TrueWords == {<<"t","r","u","e">>, <<"1">>, <<"y","e","s">>}
FalseWords == {<<"f","a","l","s","e">>, <<"0">>, <<"n","o">>}

\* the reading of a value through the vocabulary: "true", "false" or "null"
Coerced(v) ==
    IF IsNa(v) THEN "null"
    ELSE LET word == StrLower(Strip(PyStr(v)))
         IN  IF word \in TrueWords THEN "true"
             ELSE IF word \in FalseWords THEN "false"
             ELSE "null"

\* C13: calculate_boolean_score reads each side through the vocabulary
\* true/1/yes, false/0/no, anything else null, and returns 1.0 when both are
\* null, 0.5 when exactly one is null, and otherwise 1.0 for equal and 0.0
\* for different booleans.
C13_BooleanScore ==
    call.op = "calculate_boolean_score" =>
        LET p == Coerced(call.predicted)
            t == Coerced(call.ground_truth)
        IN  result.value =
                IF p = "null" /\ t = "null" THEN R1
                ELSE IF p = "null" \/ t = "null" THEN RHalf
                ELSE IF p = t THEN R1 ELSE R0

\* text outside the vocabulary opposite False: null, not false, so 0.5
C13_Witness ==
    /\ call.op = "calculate_boolean_score"
    /\ call.predicted = VStr(S_ab)
    /\ call.ground_truth = VBool(FALSE)
    /\ result.value = RHalf

\* "Yes" opposite "no": two booleans that differ
C13_WitnessDiffer ==
    /\ call.op = "calculate_boolean_score"
    /\ call.predicted = VStr(<<"Y","e","s">>)
    /\ call.ground_truth = VStr(<<"n","o">>)
    /\ result.value = R0

\* C14: for two present values calculate_enum_score returns 1.0 when they
\* are equal as strings after trimming and ignoring letter case and 0.0
\* otherwise; every enum score is exactly 0.0 or 1.0.
C14_EnumScore ==
    call.op = "calculate_enum_score" =>
        /\ result.value \in {R0, R1}
        /\ (~IsNa(call.predicted) /\ ~IsNa(call.ground_truth)) =>
               (result.value = R1 <=>
                    StrUpper(Strip(PyStr(call.predicted)))
                        = StrUpper(Strip(PyStr(call.ground_truth))))

\* " ab " opposite "AB"
C14_Witness ==
    /\ call.op = "calculate_enum_score"
    /\ call.predicted = VStr(<<" ","a","b"," ">>)
    /\ call.ground_truth = VStr(<<"A","B">>)
    /\ result.value = R1

\* "ab" opposite "ac": no partial credit
C14_WitnessDiffer ==
    /\ call.op = "calculate_enum_score"
    /\ call.predicted = VStr(S_ab)
    /\ call.ground_truth = VStr(S_ac)
    /\ result.value = R0

----------------------------------------------------------------------------
(* Properties of the row matching of calculate_table_dqs.                  *)

BothTablesGiven ==
    IsTableCall /\ ~IsEmpty(call.predicted_df) /\ ~IsEmpty(call.ground_truth_df)

\* C15: for each truth row the matcher takes the predicted rows equal to it
\* on every key column that both tables have (a key column one side lacks
\* constrains nothing) and uses the first of them in the order of the
\* predicted table; a truth row without such a row is unmatched.
C15_RowMatching ==
    BothTablesGiven =>
        /\ Len(matched_row) = Len(call.ground_truth_df.rows)
        /\ \A i \in 1..Len(call.ground_truth_df.rows) :
               LET qualifying == Candidates(call.predicted_df, call.ground_truth_df,
                                            call.key_columns, i)
               IN  IF qualifying = {} THEN matched_row[i] = 0
                   ELSE /\ matched_row[i] \in qualifying
                        /\ \A j \in qualifying : matched_row[i] <= j

\* the predicted table lacks the key column "id": its first row is matched
\* to a truth row with id 2
C15_Witness ==
    /\ BothTablesGiven
    /\ call.key_columns = <<"id">>
    /\ "id" \notin call.predicted_df.cols
    /\ Len(call.predicted_df.rows) = 2
    /\ Len(call.ground_truth_df.rows) = 1
    /\ call.ground_truth_df.rows[1]["id"] = VInt(2)
    /\ matched_row = <<1>>

\* two predicted rows carry the key 1: the first is used; the truth row with
\* a null key is unmatched
C15_WitnessFirst ==
    /\ BothTablesGiven
    /\ call.key_columns = <<"id">>
    /\ "id" \in call.predicted_df.cols
    /\ Len(call.predicted_df.rows) = 2
    /\ CellEq(call.predicted_df.rows[1]["id"], call.predicted_df.rows[2]["id"])
    /\ Len(call.ground_truth_df.rows) = 2
    /\ matched_row = <<1, 0>>

\* some truth row of the call found a predicted row
SomeRowMatched ==
    BothTablesGiven /\ \E i \in 1..Len(matched_row) : matched_row[i] # 0

\* C16 as stated: a table's overall score is 0 only if the ground truth is
\* non-empty and either nothing matched or the predicted table is empty;
\* whenever a truth row was matched the score is above 0.
C16_Original ==
    IsTableCall =>
        /\ result.value.overall = R0 =>
               /\ ~IsEmpty(call.ground_truth_df)
               /\ IsEmpty(call.predicted_df) \/ ~SomeRowMatched
        /\ SomeRowMatched => RLt(R0, result.value.overall)

\* C16: a table's overall score is 0 exactly when the ground truth is
\* non-empty and the predicted table is empty, or no truth row matched, or
\* no field was scored, or every per-field score is 0; otherwise it is
\* above 0.
C16_ZeroScore ==
    IsTableCall =>
        /\ RLe(R0, result.value.overall)
        /\ result.value.overall = R0 <=>
               /\ ~IsEmpty(call.ground_truth_df)
               /\ \/ IsEmpty(call.predicted_df)
                  \/ ~SomeRowMatched
                  \/ DOMAIN result.value.per_field = {}
                  \/ \A f \in DOMAIN result.value.per_field : result.value.per_field[f] = R0

\* both truth rows matched and the one scored field is wrong on both
C16_Witness ==
    /\ SomeRowMatched
    /\ \A i \in 1..Len(matched_row) : matched_row[i] # 0
    /\ DOMAIN result.value.per_field # {}
    /\ result.value.overall = R0

\* a truth row matched, but no field of the map is in both tables
C16_WitnessNoField ==
    /\ SomeRowMatched
    /\ DOMAIN result.value.per_field = {}
    /\ result.value.overall = R0

----------------------------------------------------------------------------
(* Properties of the fields calculate_table_dqs scores.                    *)

\* a call on two one-row tables that both hold the three date columns, with
\* the field-type map naming these columns and the truth row matched
IsDateTableCall ==
    /\ BothTablesGiven
    /\ DateColumns \subseteq call.predicted_df.cols \cap call.ground_truth_df.cols
    /\ DOMAIN call.field_types = DateColumns
    /\ Len(call.ground_truth_df.rows) = 1
    /\ matched_row # <<0>>

\* the tiered score of the date of the matched predicted row against the
\* date of the truth row
CompositeDateScore ==
    LET p == call.predicted_df.rows[matched_row[1]]
        t == call.ground_truth_df.rows[1]
    IN  calculate_date_score(p["acquiring_date"], p["acquiring_month"], p["acquiring_year"],
                             t["acquiring_date"], t["acquiring_month"], t["acquiring_year"])

\* C17: the day, month and year columns of a date are scored jointly by
\* calculate_date_score, so that the score of a table whose scored fields
\* are one date is the tiered score of that date, and the three columns get
\* no per-field scores of their own.
C17_CompositeDate ==
    IsDateTableCall =>
        /\ result.value.overall = CompositeDateScore.value
        /\ DOMAIN result.value.per_field \cap DateColumns = {}

----------------------------------------------------------------------------
(* Properties of calculate_numeric_score on a scaled truth value.          *)

IsTwiceCall == call.op = "calculate_numeric_score twice"

\* |m - 1|
Away(m) == RAbs(RSub(m, R1))

\* C18 as stated: score(t, t) = 1.0 for t # 0, and for all multipliers with
\* |m2 - 1| > |m1 - 1| score(m2 * t, t) < score(m1 * t, t).
C18_Original ==
    IsTwiceCall =>
        LET m1 == call.multipliers[1]
            m2 == call.multipliers[2]
        IN  /\ m1 = R1 => result.value[1] = R1
            /\ RLt(Away(m1), Away(m2)) => RLt(result.value[2], result.value[1])

\* C18: score(t, t) = 1.0 for t # 0; for |m2 - 1| > |m1 - 1| the score of
\* m2 * t is below that of m1 * t as long as |m1 - 1| < 1 and never above
\* it; from |m - 1| = 1 on the score is 0.0.
C18_ScaledScore ==
    IsTwiceCall =>
        LET m1 == call.multipliers[1]
            m2 == call.multipliers[2]
        IN  /\ m1 = R1 => result.value[1] = R1
            /\ (RLt(Away(m1), Away(m2)) /\ RLt(Away(m1), R1))
                   => RLt(result.value[2], result.value[1])
            /\ RLt(Away(m1), Away(m2)) => RLe(result.value[2], result.value[1])
            /\ RLe(R1, Away(m1)) => result.value[1] = R0

\* 1.25 t scores 0.75 and 1.5 t scores 0.5
C18_Witness ==
    /\ IsTwiceCall
    /\ call.multipliers = <<(<<5, 4>>), (<<3, 2>>)>>
    /\ result.value = <<(<<3, 4>>), RHalf>>

\* 2 t and 3 t both score 0.0
C18_WitnessClamped ==
    /\ IsTwiceCall
    /\ call.multipliers = <<(<<2, 1>>), (<<3, 1>>)>>
    /\ result.value = <<R0, R0>>

----------------------------------------------------------------------------
(* Properties of all the scorers of one field.                             *)

\* C20: each field scorer (text, numeric, enum, boolean, date) returns a
\* score for every pair of scalar inputs and never raises.
C20_FieldScorersTotal ==
    (IsFieldCall \/ IsDateCall) => result.raises = ""


-----------------------------------------------------------------------------
(* C21: configuration errors and construction *)

IsConstruction == call.op = "__init__"

WeightsSumToOne(w) ==
    RSum([i \in 1..Len(Sections) |-> w[Sections[i]]]) = R1

\* every table the configuration names is mapped to a section that has a weight
TablesMapped(w, m) ==
    /\ TableNames \subseteq DOMAIN m
    /\ \A t \in DOMAIN m : m[t] \in DOMAIN w

BadConfiguration ==
    \/ ~WeightsSumToOne(call.SECTION_WEIGHTS)
    \/ ~TablesMapped(call.SECTION_WEIGHTS, call.TABLE_TO_SECTION)

\* C21: when the section weights do not sum to 1.0, or a table has no section
\* mapping, constructing the engine fails with an error instead of returning a
\* calculator that will produce scores.
C21_ConfigurationRejected ==
    (IsConstruction /\ BadConfiguration) => result.raises # ""

-----------------------------------------------------------------------------
(* C22: a missing ground-truth table and an explicit empty one *)

\* an empty table as a caller can supply it: no columns at all, or the
\* columns of a file that holds only its header line
EmptyTables == {EmptyFrame, DataFrame({"submitter_id", "nacc_id", "title"}, <<>>)}

\* ground_truth with the table `empty` supplied for every table it lacks
WithExplicitEmpty(ground_truth, empty) ==
    [t \in TableNames |-> IF t \in DOMAIN ground_truth THEN ground_truth[t] ELSE empty]

ReportWithExplicitEmpty(empty) ==
    overall_report(call.predicted,
                   filter_ground_truth(call.predicted,
                                       WithExplicitEmpty(call.ground_truth, empty)))

\* C22: a ground-truth table whose key is absent from the ground_truth mapping
\* never makes calculate_overall_dqs raise, and the report is the one obtained
\* when every such table is passed as an explicit empty table.
C22_MissingIsEmpty ==
    IsOverallCall =>
        /\ result.raises = ""
        /\ \A empty \in EmptyTables : result.value = ReportWithExplicitEmpty(empty)

\* a ground-truth table is missing although the prediction has rows for it,
\* next to a ground-truth table that is there
C22_Witness ==
    /\ IsOverallCall
    /\ result.raises = ""
    /\ \E t \in DOMAIN call.predicted :
        /\ ~IsEmpty(call.predicted[t])
        /\ t \notin DOMAIN call.ground_truth
    /\ \E t \in DOMAIN call.ground_truth : ~IsEmpty(filtered_gt[t])

-----------------------------------------------------------------------------
(* C23: the tables passed in are left as they were *)

C23_WitnessTable ==
    /\ IsTableCall
    /\ \E i \in 1..Len(matched_row) : matched_row[i] > 0
    /\ tables_after.predicted_df = call.predicted_df

-----------------------------------------------------------------------------
(* C26: a section without a contributing table *)

AllInputsEmpty ==
    \A t \in TableNames :
        PredictedEmpty(t) /\ IsEmpty(DictGet(call.ground_truth, t))

C26_WitnessAllEmpty ==
    /\ IsOverallCall
    /\ AllInputsEmpty
    /\ result.value.overall_dqs = R0
    /\ \A t \in TableNames : result.value.table_scores[t] = R1

-----------------------------------------------------------------------------
(* C25: a prediction that shares no id with the ground truth *)

\* some ground-truth table holds the value v in its column col
OccursInGroundTruth(col, v) ==
    \E t \in DOMAIN call.ground_truth :
        /\ col \in call.ground_truth[t].cols
        /\ \E i \in 1..Len(call.ground_truth[t].rows) :
               CellEq(call.ground_truth[t].rows[i][col], v)

NoSharedId ==
    \A col \in IdColumns :
        \A v \in processed_ids(call.predicted, col) : ~OccursInGroundTruth(col, v)

\* C25: when no submitter_id or nacc_id of the predicted output occurs in the
\* ground truth, every ground-truth table that has such a column is empty
\* after filtering and every non-empty predicted table scores 1.0; if each of
\* the four sections then has a non-empty predicted table, overall_dqs is 1.0
\* and passes_threshold is true.
C25_DisjointIdsScorePerfect ==
    (IsOverallCall /\ NoSharedId) =>
        LET report == result.value
        IN  /\ \A t \in DOMAIN call.ground_truth :
                call.ground_truth[t].cols \cap IdColumns # {} => IsEmpty(filtered_gt[t])
            /\ \A t \in TableNames : ~PredictedEmpty(t) => report.table_scores[t] = R1
            /\ (\A section \in DOMAIN SECTION_WEIGHTS :
                    \E t \in Members(section) : ~PredictedEmpty(t)) =>
                   report.overall_dqs = R1 /\ report.passes_threshold

-----------------------------------------------------------------------------
(* C27: predicted rows in excess of the truth rows *)

\* rows that can be added to the predicted table of the call: one or two of
\* the predicted rows, cut to the table's columns
ExtraRows ==
    IF call.predicted_df.cols \subseteq {"id", "name", "amount"}
        THEN {Project(rows, call.predicted_df.cols) :
                rows \in RowSeqs(PredictedRows, 2) \ {<<>>}}
        ELSE {}

WithExtra(extra) == DataFrame(call.predicted_df.cols, call.predicted_df.rows \o extra)

\* no added row is kept by the mask of any truth row
MatchesNoTruthRow(extra) ==
    LET df == WithExtra(extra)
        truth_df == call.ground_truth_df
    IN  \A i \in 1..Len(truth_df.rows) :
            row_mask(df, truth_df, truth_df.rows[i], call.key_columns)
                \subseteq 1..Len(call.predicted_df.rows)

SameKeys(i, j) ==
    \A n \in 1..Len(call.key_columns) :
        call.key_columns[n] \in call.ground_truth_df.cols =>
            call.ground_truth_df.rows[i][call.key_columns[n]]
                = call.ground_truth_df.rows[j][call.key_columns[n]]

\* C27: a predicted row is not used up by a match (truth rows with the same
\* key values are matched to the same predicted row), and adding after the
\* predicted rows any rows that match no truth row on the key columns leaves
\* the result of calculate_table_dqs as it was.
C27_ExtraRowsIgnored ==
    IsTableCall =>
        /\ \A i, j \in 1..Len(matched_row) : SameKeys(i, j) => matched_row[i] = matched_row[j]
        /\ \A extra \in ExtraRows :
               MatchesNoTruthRow(extra) =>
                   calculate_table_dqs(WithExtra(extra), call.ground_truth_df,
                                       call.key_columns, call.field_types) = result.value

\* one predicted row is the match of two truth rows, and a row that matches
\* neither can be added
C27_Witness ==
    /\ IsTableCall
    /\ Len(matched_row) = 2
    /\ matched_row[1] > 0 /\ matched_row[1] = matched_row[2]
    /\ \E extra \in ExtraRows : MatchesNoTruthRow(extra)
    /\ RLt(R0, result.value.overall)

-----------------------------------------------------------------------------
(* C24: the tables scored in any order *)

IsByTableCall == call.op = ByTable

\* C24: whatever the order in which the tables are scored, and whatever
\* calls were made before, each table's score is the one it gets on its own
\* and the report built once all tables are scored is the report of the
\* tables scored in the order of TABLE_TO_SECTION.
C24_OrderIndependent ==
    IsByTableCall =>
        /\ \A t \in DOMAIN table_scores :
               table_scores[t] = score_table(t, call.predicted, filtered_gt).score
        /\ result # NoResult =>
               result.value =
                   overall_report(call.predicted,
                                  filter_ground_truth(call.predicted, call.ground_truth))

\* a report built after statement_detail was scored before statement, the
\* reverse of the code's order, both adding a score to the same section
C24_Witness ==
    /\ IsByTableCall
    /\ result # NoResult
    /\ Len(section_scores["statement_details"]) = 2
    /\ section_scores["statement_details"][1] = table_scores["statement_detail"]
    /\ section_scores["statement_details"][2] = table_scores["statement"]
    /\ table_scores["statement"] # table_scores["statement_detail"]

-----------------------------------------------------------------------------
(* C28: extract_all_data_batched *)

IsBatchedCall == call.op = Batched
BatchedDone == IsBatchedCall /\ result # NoResult
BatchedReturned == BatchedDone /\ result.raises = ""

\* the pages of the oracle calls made so far, call after call
RECURSIVE PagesSent(_)
PagesSent(calls) ==
    IF calls = <<>> THEN <<>> ELSE calls[1].pages \o PagesSent(Tail(calls))

\* the origins of the assets the oracle calls returned, call after call
RECURSIVE OriginsReturned(_)
OriginsReturned(calls) ==
    IF calls = <<>> THEN <<>>
    ELSE [i \in 1..Len(calls[1].returned) |-> calls[1].returned[i].origin]
            \o OriginsReturned(Tail(calls))

IsPrefix(s, t) == Len(s) <= Len(t) /\ s = SubSeq(t, 1, Len(s))

\* one full extraction, then asset-only calls, none over the batch size
CallShape ==
    /\ oracle_calls[1].method = "extract_all_data"
    /\ \A i \in 2..Len(oracle_calls) : oracle_calls[i].method = "_extract_assets_only"
    /\ \A i \in 1..Len(oracle_calls) :
           Len(oracle_calls[i].pages) <= call.max_pages_per_batch
    /\ Len(call.page_images) <= call.max_pages_per_batch => Len(oracle_calls) = 1
    /\ Len(call.page_images) > call.max_pages_per_batch =>
           oracle_calls[1].pages = SubSeq(call.page_images, 1, call.max_pages_per_batch)

\* the returned assets are those of the first result, with their indexes,
\* followed by those of the asset-only calls in call order
AssetsAppended ==
    LET items == result.value.items
        first == oracle_calls[1].returned
    IN  /\ [i \in 1..Len(items) |-> items[i].origin] = OriginsReturned(oracle_calls)
        /\ SubSeq(items, 1, Len(first)) = first

EveryPageSentOnce == PagesSent(oracle_calls) = call.page_images

\* C28 as stated: the method terminates and, when it has, every page was sent
\* to the oracle in exactly one call, in page order, in calls of at most
\* max_pages_per_batch pages: one full extraction, then asset-only calls
\* whose assets are appended to the first result.
C28_Original ==
    /\ [](BatchedDone => (EveryPageSentOnce /\ CallShape))
    /\ [](BatchedReturned => AssetsAppended)
    /\ (IsBatchedCall ~> BatchedDone)

\* C28: the method terminates, by returning or raising, for every page count
\* and batch size >= 1; the pages sent so far are always the first pages of
\* the document, each in exactly one call of at most max_pages_per_batch
\* pages, the first call a full extraction and the others asset-only; and
\* when the method returns, every page has been sent and the assets of the
\* asset-only calls are appended to the first result.
C28_Batching ==
    /\ [](IsBatchedCall =>
            (IsPrefix(PagesSent(oracle_calls), call.page_images) /\ CallShape))
    /\ [](BatchedReturned => (EveryPageSentOnce /\ AssetsAppended))
    /\ (IsBatchedCall ~> BatchedDone)

\* five pages in batches of two: a full extraction of pages 1-2, asset-only
\* calls on pages 3-4 and 5, assets of both appended after the first two
C28_Witness ==
    /\ BatchedReturned
    /\ Len(call.page_images) = 5 /\ call.max_pages_per_batch = 2
    /\ Len(oracle_calls) = 3
    /\ oracle_calls[3].pages = <<5>>
    /\ Len(result.value.items) = 4
    /\ result.value.items[4] = Asset(4, 3)

\* the full extraction of the first batch raised and the rest was never sent
C28_WitnessRaised ==
    /\ BatchedDone
    /\ result.raises # ""
    /\ Len(oracle_calls) = 1
    /\ Len(call.page_images) > call.max_pages_per_batch

-----------------------------------------------------------------------------
(* C29: a document that fails inside process_batch *)

DocumentEntered == invocations' = invocations + 1

\* C29: processed_docs + failed_docs is always the number of
\* process_document calls made; and a call that raises adds exactly one to
\* failed_docs, leaves processed_docs and all_results as they were, and
\* leaves the batch running on the documents that follow.
C29_FailedDocumentSkipped ==
    /\ [](processed_docs + failed_docs = invocations)
    /\ [][(DocumentEntered /\ result'.raises # "") =>
            /\ failed_docs' = failed_docs + 1
            /\ processed_docs' = processed_docs
            /\ all_results' = all_results
            /\ doc_queue' = Tail(doc_queue)
            /\ InBatch']_vars

\* the first document of a batch failed and the second was processed: only
\* the second one's rows are in all_results
C29_Witness ==
    /\ call.op = "process_document"
    /\ call.nacc_id = 2
    /\ result.raises = ""
    /\ failed_docs = 1 /\ processed_docs = 1
    /\ Len(all_results["asset"]) = 1
    /\ all_results["asset"][1].doc = 2

-----------------------------------------------------------------------------
(* C30: asset_id *)

AssetRows == concat(all_results["asset"])

InfoTableNames == {InfoTables[k] : k \in DOMAIN InfoTables}

\* C30: the asset_id values of the asset rows are strictly increasing in
\* processing order, hence pairwise distinct, and below next_asset_id, which
\* never decreases; and every row of the four asset info tables carries the
\* asset_id of an asset row built by the same process_document call.
C30_AssetIds ==
    /\ [](/\ \A i, j \in 1..Len(AssetRows) :
                i < j => AssetRows[i].asset_id < AssetRows[j].asset_id
          /\ \A i \in 1..Len(AssetRows) : AssetRows[i].asset_id < next_asset_id
          /\ \A table_name \in InfoTableNames :
                \A n \in 1..Len(all_results[table_name]) :
                    LET frame == all_results[table_name][n]
                    IN  \A r \in 1..Len(frame.rows) :
                            \E m \in 1..Len(all_results["asset"]) :
                                /\ all_results["asset"][m].doc = frame.doc
                                /\ \E a \in 1..Len(all_results["asset"][m].rows) :
                                       all_results["asset"][m].rows[a].asset_id
                                           = frame.rows[r].asset_id)
    /\ [][next_asset_id' >= next_asset_id]_vars

\* a document failed after taking two asset ids; the next document's assets
\* are numbered 3 and 4 and its vehicle row carries 4
C30_Witness ==
    /\ failed_docs = 1 /\ processed_docs = 1
    /\ next_asset_id = 5
    /\ Len(AssetRows) = 2
    /\ AssetRows[1].asset_id = 3 /\ AssetRows[2].asset_id = 4
    /\ Len(all_results["asset_vehicle_info"]) = 1
    /\ all_results["asset_vehicle_info"][1].rows[1].asset_id = 4

====
